---- MODULE Spec2Model ----
(***************************************************************************)
(* The WebSocket relay server of the collaborative code editor             *)
(* (backend/server.ts and its Gemini variant), its mongoose models and the *)
(* completion client's retry loop.                                         *)
(*                                                                         *)
(* Node runs one handler at a time and switches handlers only at an await. *)
(* An awaited store call is therefore split in two: the step in which the  *)
(* store executes the operation (Exec...), at some instant after the call  *)
(* was issued, and the step in which the event loop runs the continuation  *)
(* of the await up to the next await (Resume...).  Steps of other handlers *)
(* may come between the two.  Where a successful continuation only moves   *)
(* on to the next store call of the same function (it reads and writes     *)
(* nothing but its own locals) it is taken together with the store's step; *)
(* a rejected call always resumes in a step of its own.                    *)
(***************************************************************************)
EXTENDS Integers, Sequences, FiniteSets, TLC

\* ------------------------------------------------------------- bounds
MaxMsgs == 3
MaxRace == 2
MaxText == 2
MaxFaults == 1

MaxAI == 2
MaxSaves == 1
MaxLoads == 2
MaxCode == 3
MaxSockets == 3
MaxPings == 2

Sessions == {"s1", "s2", "s3"}
Filenames == {"a.txt", "b.txt"}
Contents == {"x", "y"}

VARIABLES
    textData,     \* server.ts:20, the process-wide shared text buffer
    files,        \* the File collection: sequence of documents, _id = index
    versions,     \* the Version collection: sequence of records, _id = index
    readyState,   \* per session: the server-side socket's readyState
    clients,      \* wss.clients
    sent,         \* per session: the messages handed to its open transport
    tasks,        \* the message handlers and detached async calls, in call order
    faults,       \* store faults so far
    handled,      \* inbound messages the router has been called with so far
    saved,        \* history: the filenames of the SAVE_FILEs that completed
    racy,         \* history: per version, whether the save that created it
                  \* had by then overlapped another save of the same filename
    prior,        \* history: per version, the store's content of its document
                  \* at the instant the version record was created
    overwrites,   \* history: per filename, the saves of it whose file.save()
                  \* of the document they found was carried out
    variant,      \* which server runs: "ollama" (backend/server.ts) or
                  \* "gemini" (its variant, unnamed/part_002)
    inflight,     \* the calls to the completion endpoint that are outstanding
    returned,     \* history: the calls of getAICodeCompletion that returned
    running,      \* the server process is alive
    page          \* +page.svelte: one client component, its socket and timers

vars == <<textData, files, versions, readyState, clients, sent, tasks, faults,
          handled, saved, racy, prior, overwrites, page, variant, inflight,
          returned, running>>

\* ------------------------------------------------------------- messages
\* Outbound.
TextUpdated(c) == [type |-> "TEXT_UPDATED", content |-> c]
FileSavedMsg(fn) == [type |-> "FILE_SAVED", filename |-> fn]
FileListMsg(fs) == [type |-> "FILE_LIST", files |-> fs]
FileLoadedMsg(fn, c) == [type |-> "FILE_LOADED", filename |-> fn, content |-> c]
FileVersionsMsg(vs) == [type |-> "FILE_VERSIONS", versions |-> vs]
AICompletionMsg(c) == [type |-> "AI_CODE_COMPLETION", content |-> c]

\* Inbound, as the client sends them.
UpdateTextMsgs == {[type |-> "UPDATE_TEXT", content |-> c] : c \in Contents}
SaveFileMsgs ==
    {[type |-> "SAVE_FILE", filename |-> fn, content |-> c] :
        fn \in Filenames, c \in Contents}
GetFilesMsgs == {[type |-> "GET_FILES"]}
LoadFileMsgs == {[type |-> "LOAD_FILE", filename |-> fn] : fn \in Filenames}
LoadVersionMsgs ==
    {[type |-> "LOAD_VERSION", versionId |-> v, filename |-> fn] :
        v \in 1..MaxMsgs, fn \in Filenames}
\* PING is sent by the client every 30 s; the server has no case for it, nor
\* for any other tag.
UnhandledMsgs == {[type |-> "PING"], [type |-> "DELETE_FILE"]}

\* ------------------------------------------------------------- text
\* A string is the sequence of its characters.  The backquote, which cannot
\* be written in a string here, is the character BQ.
BQ == "BQ"
WordChars == {"a", "f", "j", "v", "o", "x", "1", "_"}      \* some of [A-Za-z0-9_]
Blanks == {" ", "\n", "\t"}                                \* some of \s
Fence == <<BQ, BQ, BQ>>

FenceAt(t, i) == i + 2 <= Len(t) /\ SubSeq(t, i, i + 2) = Fence
From(t, i) == SubSeq(t, i, Len(t))

\* The length of the longest run of characters of set S that starts at i.
RECURSIVE Run(_, _, _)
Run(t, i, S) == IF i <= Len(t) /\ t[i] \in S THEN 1 + Run(t, i + 1, S) ELSE 0

\* The length of the match of ```[\w]*\n? at i, where a fence starts.
OpenLen(t, i) ==
    LET w == Run(t, i + 3, WordChars)
    IN  3 + w + (IF i + 3 + w <= Len(t) /\ t[i + 3 + w] = "\n" THEN 1 ELSE 0)

\* text.replace(/^```[\w]*\n?/, '')
StripOpen(t) == IF FenceAt(t, 1) THEN From(t, 1 + OpenLen(t, 1)) ELSE t

\* text.replace(/\n?```$/, '')
StripClose(t) ==
    LET n == Len(t) - 3
    IN  IF n >= 0 /\ FenceAt(t, n + 1)
        THEN IF n >= 1 /\ t[n] = "\n" THEN SubSeq(t, 1, n - 1) ELSE SubSeq(t, 1, n)
        ELSE t

\* text.replace(/```[\w]*\n?/g, ''), scanning from i
RECURSIVE StripOpens(_, _)
StripOpens(t, i) ==
    IF i > Len(t) THEN <<>>
    ELSE IF FenceAt(t, i) THEN StripOpens(t, i + OpenLen(t, i))
    ELSE <<t[i]>> \o StripOpens(t, i + 1)

\* text.replace(/\n?```/g, ''), scanning from i
RECURSIVE StripCloses(_, _)
StripCloses(t, i) ==
    IF i > Len(t) THEN <<>>
    ELSE IF t[i] = "\n" /\ FenceAt(t, i + 1) THEN StripCloses(t, i + 4)
    ELSE IF FenceAt(t, i) THEN StripCloses(t, i + 3)
    ELSE <<t[i]>> \o StripCloses(t, i + 1)

\* The number of blanks at the end of t.
RECURSIVE RunBack(_, _)
RunBack(t, i) == IF i >= 1 /\ t[i] \in Blanks THEN 1 + RunBack(t, i - 1) ELSE 0

\* text.trim()
Trim(t) ==
    LET a == Run(t, 1, Blanks)
    IN  IF a = Len(t) THEN <<>> ELSE SubSeq(t, a + 1, Len(t) - RunBack(t, Len(t)))

\* A clean-up of the two ends only.
CleanEnds(raw) == Trim(StripClose(StripOpen(raw)))

\* The clean-up of the raw response: the four replaces, then trim.
Clean(raw) == Trim(StripCloses(StripOpens(StripClose(StripOpen(raw)), 1), 1))

\* code.split('\n')
RECURSIVE Split(_)
Split(t) ==
    LET n == Run(t, 1, {c \in {t[i] : i \in 1..Len(t)} : c # "\n"})
    IN  IF n = Len(t) THEN <<t>>
        ELSE <<SubSeq(t, 1, n)>> \o Split(From(t, n + 2))

\* lines.join('\n')
RECURSIVE Join(_)
Join(ls) ==
    IF ls = <<>> THEN <<>>
    ELSE IF Len(ls) = 1 THEN ls[1]
    ELSE ls[1] \o <<"\n">> \o Join(Tail(ls))

IsBlankLine(l) == Run(l, 1, Blanks) = Len(l)                \* !line.trim()
Spaces(n) == [i \in 1..n |-> " "]                           \* ' '.repeat(n)

\* A search that takes the cursor at the start of a line to be in the line
\* before.
RECURSIVE LineIndentationUpTo(_, _, _, _)
LineIndentationUpTo(ls, k, currentPos, cursorPosition) ==
    IF k > Len(ls) THEN 0
    ELSE IF currentPos + Len(ls[k]) + 1 >= cursorPosition THEN Run(ls[k], 1, {" "})
    ELSE LineIndentationUpTo(ls, k + 1, currentPos + Len(ls[k]) + 1, cursorPosition)

\* getLineIndentation(content, cursorPosition), over the lines from line k on
\* with currentPos the position count so far.
RECURSIVE LineIndentationFrom(_, _, _, _)
LineIndentationFrom(ls, k, currentPos, cursorPosition) ==
    IF k > Len(ls) THEN 0
    ELSE IF currentPos + Len(ls[k]) + 1 > cursorPosition THEN Run(ls[k], 1, {" "})
    ELSE LineIndentationFrom(ls, k + 1, currentPos + Len(ls[k]) + 1, cursorPosition)

getLineIndentation(content, cursorPosition) ==
    LineIndentationFrom(Split(content), 1, 0, cursorPosition)

\* indentCode(code, baseIndentation)
indentCode(code, baseIndentation) ==
    LET ls == Split(code)
    IN  Join([k \in 1..Len(ls) |->
                IF IsBlankLine(ls[k]) THEN <<>> ELSE Spaces(baseIndentation) \o ls[k]])

\* formatCode(code): the non-blank lines, each without the least indentation
\* of them all.
formatCode(code) ==
    LET ls == SelectSeq(Split(code), LAMBDA l : ~IsBlankLine(l))
        indents == {Run(ls[k], 1, Blanks) : k \in 1..Len(ls)}
        minIndent == IF indents = {} THEN 0
                     ELSE CHOOSE m \in indents : \A n \in indents : m <= n
    IN  Join([k \in 1..Len(ls) |-> From(ls[k], minIndent + 1)])

\* ------------------------------------------------------------- completion
Variants == {"ollama", "gemini"}

\* const maxRetries
MaxRetriesOllama == 3
MaxRetriesGemini == 100
maxRetries == IF variant = "ollama" THEN MaxRetriesOllama ELSE MaxRetriesGemini

\* setTimeout(resolve, 1000)
BackoffMs == 1000

\* cursorPosition when the request carries none.
Undefined == -1

\* The editor texts and cursor positions of the requests, and the texts the
\* endpoint answers with: one fenced and indented, one bare.
AIContents == {<<" ", " ", "a", "\n", "x">>}
CursorPositions == {Undefined, 1}
RawResponses ==
    {<<BQ, BQ, BQ, "j", "\n", " ", "f", "\n", BQ, BQ, BQ, "\n">>, <<"f", "\n", " ", "o">>}

\* AI_CODE_COMPLETION as a client can send it (prompt, language and
\* isVoicePrompt only shape the prompt text the endpoint is given).
AIMsgs ==
    {[type |-> "AI_CODE_COMPLETION", content |-> c, cursorPosition |-> p] :
        c \in AIContents, p \in CursorPositions}

\* `Error: Unable to get AI code completion after ${maxRetries} attempts.`
Sentinel ==
    <<"Error: Unable to get AI code completion after ", ToString(maxRetries),
      " attempts.">>

\* What getAICodeCompletion returns for the raw response it received: the
\* cleaned text, indented like the cursor's line when server.ts was given a
\* cursor position, passed through formatCode in the Gemini variant.
Completion(r) ==
    IF variant = "ollama"
    THEN IF r.cursorPosition # Undefined
         THEN indentCode(Clean(r.raw), getLineIndentation(r.context, r.cursorPosition))
         ELSE Clean(r.raw)
    ELSE formatCode(Clean(r.raw))

\* ------------------------------------------------------------- transport
\* A send that reaches every open socket.
WsSendToAll(box, s, m) ==
    [x \in Sessions |->
        IF x \in clients /\ readyState[x] = "OPEN" THEN Append(box[x], m) ELSE box[x]]

\* ws.send(message) on one socket: handed to the transport when the socket is
\* OPEN; on a CLOSING or CLOSED socket send() without a callback does nothing.
WsSend(box, s, m) ==
    IF readyState[s] = "OPEN" THEN [box EXCEPT ![s] = Append(@, m)] ELSE box

\* A broadcast that does not look at readyState.
BroadcastToClients(box, m) ==
    [s \in Sessions |-> IF s \in clients THEN Append(box[s], m) ELSE box[s]]

\* broadcastToAll(message): every member of wss.clients whose readyState is OPEN.
BroadcastToAll(box, m) ==
    [s \in Sessions |->
        IF s \in clients /\ readyState[s] = "OPEN" THEN Append(box[s], m) ELSE box[s]]

\* ------------------------------------------------------------- store
\* File.findOne({ filename }): the _id of the first document with that
\* filename, 0 for null.
FindOne(fn) ==
    LET hits == {i \in 1..Len(files) : files[i].filename = fn}
    IN  IF hits = {} THEN 0 ELSE CHOOSE i \in hits : \A j \in hits : i <= j

\* A count of the versions of every document.
CountAllDocuments(fid) == Len(versions)

\* Version.countDocuments({ fileId })
CountDocuments(fid) ==
    Cardinality({i \in 1..Len(versions) : versions[i].fileId = fid})

\* A listing that misses the newest document.
FindFilenamesButLast == [i \in 1..(Len(files) - 1) |-> files[i].filename]

\* File.find().select('filename') mapped to the filenames, in natural order.
FindFilenames == [i \in 1..Len(files) |-> files[i].filename]

\* A File collection without the unique index.
NoUniqueIndex(fn) == FALSE

\* The unique index on filename (fileSchema, filename: unique: true): an insert
\* of a filename that is already stored is rejected with a duplicate-key error.
UniqueViolation(fn) == \E i \in 1..Len(files) : files[i].filename = fn

\* ------------------------------------------------------------- tasks
NoTask == [kind |-> "none", sess |-> "", pc |-> "none", phase |-> "none",
           filename |-> "", content |-> "", versionId |-> 0,
           ok |-> TRUE, fileId |-> 0, fileContent |-> "", cnt |-> 0,
           found |-> FALSE, names |-> <<>>, rows |-> <<>>,
           overlapped |-> FALSE, known |-> {}, heard |-> {},
           req |-> 0, cursorPosition |-> 0, raw |-> <<>>, retries |-> 0,
           timer |-> 0, attempts |-> 0, waited |-> 0, enclosed |-> <<>>,
           context |-> <<>>]

TaskIds == 1..Len(tasks)

\* A save whose saveFile call has neither returned nor thrown.
SavePcs == {"findOne", "count", "createVersion", "fileSave", "createFile"}
SaveInFlight(t) == tasks[t].kind = "save" /\ tasks[t].pc \in SavePcs

\* The calls in flight once call t has ended.
Ended(t) == SubSeq(tasks, 1, t - 1) \o SubSeq(tasks, t + 1, Len(tasks))

Await(r, op) == [r EXCEPT !.pc = op, !.phase = "wait", !.ok = TRUE]
Result(r) == [r EXCEPT !.phase = "ready", !.ok = TRUE]
Rejected(r) == [r EXCEPT !.phase = "ready", !.ok = FALSE]

Waiting(t, k, op) ==
    tasks[t].kind = k /\ tasks[t].pc = op /\ tasks[t].phase = "wait"
Ready(t, k, op) ==
    tasks[t].kind = k /\ tasks[t].pc = op /\ tasks[t].phase = "ready"

\* ------------------------------------------------------------- client
\* setTimeout(initializeWebSocket, 5000)
ReconnectMs == 5000

\* The component before onMount: socket = null, no timer.  (socket is the
\* readyState of the WebSocket the variable socket holds; intervals are the
\* setInterval timers that run; timeouts are the pending setTimeout calls,
\* each with the time left and, as history, the time waited; made counts the
\* WebSockets constructed, ids the timer ids handed out; out is what was
\* handed to socket.send.)
Unmounted ==
    [mounted |-> "no", socket |-> "none", pingInterval |-> 0, intervals |-> {},
     timeouts |-> <<>>, made |-> 0, ids |-> 0, out |-> <<>>]

\* The client runs against any server: the server's state is left alone.
ClientFrame ==
    UNCHANGED <<textData, files, versions, readyState, clients, sent, tasks,
                faults, handled, saved, racy, prior, overwrites, variant,
                inflight, returned, running>>

\* initializeWebSocket(): socket = new WebSocket(...), handlers attached.
initializeWebSocket(p) == [p EXCEPT !.socket = "CONNECTING", !.made = @ + 1]

\* startPingInterval(): pingInterval = setInterval(...)
startPingInterval(p) ==
    [p EXCEPT !.ids = @ + 1, !.pingInterval = p.ids + 1,
              !.intervals = @ \cup {p.ids + 1}]

\* onMount: initializeWebSocket().
Mount ==
    /\ page.mounted = "no"
    /\ page' = initializeWebSocket([page EXCEPT !.mounted = "yes"])
    /\ ClientFrame

\* socket.onopen: getFiles(); startPingInterval().
OnOpen ==
    /\ page.socket = "CONNECTING"
    /\ page' = startPingInterval([page EXCEPT !.socket = "OPEN",
                                              !.out = Append(@, "GET_FILES")])
    /\ ClientFrame

\* A socket.onclose that leaves the ping timer running.
OnCloseKeepsTimer ==
    /\ page.socket \in {"CONNECTING", "OPEN", "CLOSING"}
    /\ page' = [page EXCEPT !.socket = "CLOSED",
                            !.timeouts = Append(@, [left |-> ReconnectMs,
                                                    waited |-> 0])]
    /\ ClientFrame

\* socket.onclose, when the connection fails, the transport drops or a close
\* completes: clearInterval(pingInterval); setTimeout(initializeWebSocket,
\* 5000).
OnClose ==
    /\ page.socket \in {"CONNECTING", "OPEN", "CLOSING"}
    /\ page' = [page EXCEPT !.socket = "CLOSED",
                            !.intervals = @ \ {page.pingInterval},
                            !.timeouts = Append(@, [left |-> ReconnectMs,
                                                    waited |-> 0])]
    /\ ClientFrame

\* Half the reconnection delay passes for every timeout that has not run
\* out.
ClientTick ==
    /\ \E i \in 1..Len(page.timeouts) : page.timeouts[i].left > 0
    /\ page' = [page EXCEPT !.timeouts =
                    [i \in 1..Len(page.timeouts) |->
                        IF page.timeouts[i].left > 0
                        THEN [left |-> page.timeouts[i].left - ReconnectMs \div 2,
                              waited |-> page.timeouts[i].waited + ReconnectMs \div 2]
                        ELSE page.timeouts[i]]]
    /\ ClientFrame

\* The timeout set by onclose runs initializeWebSocket.
ReconnectFires(i) ==
    /\ i \in 1..Len(page.timeouts)
    /\ page.timeouts[i].left = 0
    /\ page.made < MaxSockets
    /\ page' = initializeWebSocket(
                    [page EXCEPT !.timeouts =
                        SubSeq(@, 1, i - 1) \o SubSeq(@, i + 1, Len(@))])
    /\ ClientFrame

\* The setInterval callback: a PING when the socket is open.
PingFires(id) ==
    /\ id \in page.intervals
    /\ Len(page.out) < MaxSockets + MaxPings
    /\ page' = IF page.socket = "OPEN"
               THEN [page EXCEPT !.out = Append(@, "PING")]
               ELSE page
    /\ ClientFrame

\* The function onMount returned, run when the component is destroyed:
\* if (socket) socket.close(); clearInterval(pingInterval).
Teardown ==
    /\ page.mounted = "yes"
    /\ page' = [page EXCEPT !.mounted = "gone",
                            !.socket = IF @ \in {"CONNECTING", "OPEN"}
                                       THEN "CLOSING" ELSE @,
                            !.intervals = @ \ {page.pingInterval}]
    /\ ClientFrame

\* The store as an earlier run of the server left it: empty, or one document
\* that has never been overwritten.
StoredAtStart == {<<>>, <<[filename |-> "a.txt", content |-> "x"]>>}

Start ==
    /\ textData = ""
    /\ files \in StoredAtStart
    /\ versions = <<>>
    /\ readyState = [s \in Sessions |-> "NONE"]
    /\ clients = {}
    /\ sent = [s \in Sessions |-> <<>>]
    /\ tasks = <<>>
    /\ faults = 0
    /\ handled = 0
    /\ saved = {}
    /\ overwrites = [fn \in Filenames |-> 0]
    /\ page = Unmounted
    /\ racy = <<>>
    /\ prior = <<>>
    /\ inflight = {}
    /\ returned = {}
    /\ running = TRUE

\* backend/server.ts is the server that runs.
Init == Start /\ variant = "ollama"

\* ------------------------------------------------------------- sessions
\* sendFileList(ws) up to its await of getFiles().
SendFileListCall(s) ==
    Await([NoTask EXCEPT !.kind = "list", !.sess = s, !.known = saved], "find")

ConnectInitialText(s) ==
    /\ running
    /\ readyState[s] = "NONE"
    /\ readyState' = [readyState EXCEPT ![s] = "OPEN"]
    /\ clients' = clients \cup {s}
    /\ sent' = [sent EXCEPT ![s] = Append(@, TextUpdated(""))]
    /\ tasks' = Append(tasks, SendFileListCall(s))
    /\ UNCHANGED <<textData, files, versions, faults, handled, saved, racy, prior, overwrites, page,
                   variant, inflight, returned, running>>

\* wss.on('connection'): the handshake TEXT_UPDATED, then sendFileList(ws),
\* which is not awaited.
Connect(s) ==
    /\ running
    /\ readyState[s] = "NONE"
    /\ readyState' = [readyState EXCEPT ![s] = "OPEN"]
    /\ clients' = clients \cup {s}
    /\ sent' = [sent EXCEPT ![s] = Append(@, TextUpdated(textData))]
    /\ tasks' = Append(tasks, SendFileListCall(s))
    /\ UNCHANGED <<textData, files, versions, faults, handled, saved, racy, prior, overwrites, page,
                   variant, inflight, returned, running>>

\* The closing handshake starts: the socket is CLOSING and still in wss.clients.
BeginClose(s) ==
    /\ readyState[s] = "OPEN"
    /\ readyState' = [readyState EXCEPT ![s] = "CLOSING"]
    /\ UNCHANGED <<textData, files, versions, clients, sent, tasks, faults,
                   handled, saved, racy, prior, overwrites, page,
                   variant, inflight, returned, running>>

\* The socket closes: readyState CLOSED, and the server removes it from
\* wss.clients.
FinishClose(s) ==
    /\ readyState[s] \in {"OPEN", "CLOSING"}
    /\ readyState' = [readyState EXCEPT ![s] = "CLOSED"]
    /\ clients' = clients \ {s}
    /\ UNCHANGED <<textData, files, versions, sent, tasks, faults, handled,
                   saved, racy, prior, overwrites, page,
                   variant, inflight, returned, running>>

\* ------------------------------------------------------------- router
\* An UPDATE_TEXT that stores the text and tells no one.
UpdateTextSilent(m) ==
    /\ textData' = m.content
    /\ UNCHANGED <<files, versions, readyState, clients, sent, tasks, faults,
                   saved, racy, prior, overwrites, page,
                   variant, inflight, returned, running>>

\* An UPDATE_TEXT that broadcasts the buffer as it was.
UpdateTextStale(m) ==
    /\ textData' = m.content
    /\ sent' = BroadcastToAll(sent, TextUpdated(textData))
    /\ UNCHANGED <<files, versions, readyState, clients, tasks, faults,
                   saved, racy, prior, overwrites, page,
                   variant, inflight, returned, running>>

\* case 'UPDATE_TEXT': no await, the whole handler is one step.
UpdateText(m) ==
    /\ textData' = m.content
    /\ sent' = BroadcastToAll(sent, TextUpdated(m.content))
    /\ UNCHANGED <<files, versions, readyState, clients, tasks, faults,
                   saved, racy, prior, overwrites, page,
                   variant, inflight, returned, running>>

\* case 'SAVE_FILE': saveFile runs up to await File.findOne.
\* (overlapped is history: it marks the saves of one filename that are in
\* flight together.)
SaveFileCall(s, m) ==
    LET others == {t \in TaskIds : SaveInFlight(t) /\ tasks[t].filename = m.filename}
        new == Await([NoTask EXCEPT !.kind = "save", !.sess = s,
                                    !.filename = m.filename, !.content = m.content,
                                    !.overlapped = (others # {})], "findOne")
    IN  /\ tasks' = Append([t \in TaskIds |->
                              IF t \in others
                              THEN [tasks[t] EXCEPT !.overlapped = TRUE]
                              ELSE tasks[t]], new)
        /\ UNCHANGED <<textData, files, versions, readyState, clients, sent,
                       faults, saved, racy, prior, overwrites, page,
                   variant, inflight, returned, running>>

\* case 'GET_FILES': sendFileList(ws), not awaited.
GetFilesCall(s) ==
    /\ tasks' = Append(tasks, SendFileListCall(s))
    /\ UNCHANGED <<textData, files, versions, readyState, clients, sent,
                   faults, saved, racy, prior, overwrites, page,
                   variant, inflight, returned, running>>

\* case 'LOAD_VERSION': loadVersion runs up to await Version.findById.
LoadVersionCall(s, m) ==
    /\ tasks' = Append(tasks, Await([NoTask EXCEPT !.kind = "loadVersion", !.sess = s,
                                        !.filename = m.filename,
                                        !.versionId = m.versionId], "findById"))
    /\ UNCHANGED <<textData, files, versions, readyState, clients, sent,
                   faults, saved, racy, prior, overwrites, page,
                   variant, inflight, returned, running>>

\* case 'LOAD_FILE': loadFile runs up to await File.findOne.
LoadFileCall(s, m) ==
    /\ tasks' = Append(tasks, Await([NoTask EXCEPT !.kind = "load", !.sess = s,
                                        !.filename = m.filename], "findOne"))
    /\ UNCHANGED <<textData, files, versions, readyState, clients, sent,
                   faults, saved, racy, prior, overwrites, page,
                   variant, inflight, returned, running>>

\* A request that is sent twice at once.
FetchHedged(calls, r) ==
    calls \cup {[req |-> r.req, attempt |-> r.attempts],
                [req |-> r.req, attempt |-> r.attempts + 1]}

\* await fetch(...) / await model.generateContent(...): one more call to the
\* endpoint is outstanding, the attempt of request r.req that r.attempts counts.
Fetch(calls, r) == calls \cup {[req |-> r.req, attempt |-> r.attempts]}

\* case 'AI_CODE_COMPLETION': getAICodeCompletion runs up to the await of its
\* first call to the endpoint.  (req, the ordinal of the message, names the
\* request; attempts is history: the calls made for it so far.)
AICall(s, m) ==
    LET r == [NoTask EXCEPT !.kind = "ai", !.sess = s, !.pc = "fetch",
                            !.phase = "wait", !.context = m.content,
                            !.cursorPosition = m.cursorPosition,
                            !.req = handled + 1, !.retries = 0, !.attempts = 1]
    IN  /\ tasks' = Append(tasks, r)
        /\ inflight' = Fetch(inflight, r)
        /\ UNCHANGED <<textData, files, versions, readyState, clients, sent,
                       faults, saved, racy, prior, overwrites, page, variant, returned, running>>

\* A default case that answers every session.
NoCaseAnswers ==
    /\ sent' = BroadcastToAll(sent, [type |-> "ERROR"])
    /\ UNCHANGED <<textData, files, versions, readyState, clients, tasks,
                   faults, saved, racy, prior, overwrites, page,
                   variant, inflight, returned, running>>

\* No case of the switch matches: the handler returns.
NoCase ==
    UNCHANGED <<textData, files, versions, readyState, clients, sent, tasks,
                faults, saved, racy, prior, overwrites, page,
                   variant, inflight, returned, running>>

\* A router that takes no message while a completion request is suspended.
OnMessageSerial(s, m) ==
    /\ running
    /\ \A t \in TaskIds : tasks[t].kind # "ai"
    /\ readyState[s] = "OPEN"
    /\ handled < MaxMsgs
    /\ handled' = handled + 1
    /\ CASE m.type = "UPDATE_TEXT" -> UpdateText(m)
         [] m.type = "SAVE_FILE" -> SaveFileCall(s, m)
         [] m.type = "GET_FILES" -> GetFilesCall(s)
         [] m.type = "LOAD_FILE" -> LoadFileCall(s, m)
         [] m.type = "LOAD_VERSION" -> LoadVersionCall(s, m)
         [] m.type = "AI_CODE_COMPLETION" -> AICall(s, m)
         [] OTHER -> NoCase

\* ws.on('message') for a message m of the open session s: the switch on
\* data.type.
OnMessage(s, m) ==
    /\ running
    /\ readyState[s] = "OPEN"
    /\ handled < MaxMsgs
    /\ handled' = handled + 1
    /\ CASE m.type = "UPDATE_TEXT" -> UpdateText(m)
         [] m.type = "SAVE_FILE" -> SaveFileCall(s, m)
         [] m.type = "GET_FILES" -> GetFilesCall(s)
         [] m.type = "LOAD_FILE" -> LoadFileCall(s, m)
         [] m.type = "LOAD_VERSION" -> LoadVersionCall(s, m)
         [] m.type = "AI_CODE_COMPLETION" -> AICall(s, m)
         [] OTHER -> NoCase

\* ------------------------------------------------------------- store steps
Frame ==
    UNCHANGED <<textData, readyState, clients, sent, faults, handled, saved,
                variant, inflight, returned, running>>

\* The store is unreachable or errors: the awaited call rejects, its
\* operation was not applied.
StoreFault(t) ==
    /\ t \in TaskIds
    /\ tasks[t].phase = "wait"
    /\ faults < MaxFaults
    /\ faults' = faults + 1
    /\ tasks' = [tasks EXCEPT ![t] = Rejected(@)]
    /\ UNCHANGED <<textData, files, versions, readyState, clients, sent,
                   handled, saved, racy, prior, overwrites, page, variant, inflight, returned, running>>

\* The document File.findOne({ filename }) resolves to, as the locals that
\* hold it.
Found(r) ==
    LET fid == FindOne(r.filename)
    IN  [r EXCEPT !.fileId = fid,
                  !.fileContent = IF fid = 0 THEN "" ELSE files[fid].content]

\* saveFile: let file = await File.findOne({ filename }); if (file) the count
\* is asked for, else File.create is called.
ExecSaveFindOne(t) ==
    /\ Waiting(t, "save", "findOne")
    /\ tasks' = [tasks EXCEPT ![t] =
                    Await(Found(@), IF Found(@).fileId # 0 THEN "count" ELSE "createFile")]
    /\ UNCHANGED <<files, versions, racy, prior, overwrites, page>>
    /\ Frame

\* version: await Version.countDocuments({ fileId: file._id }) + 1, then
\* Version.create is called.
ExecCount(t) ==
    /\ Waiting(t, "save", "count")
    /\ tasks' = [tasks EXCEPT ![t] =
                    Await([@ EXCEPT !.cnt = CountDocuments(tasks[t].fileId)],
                          "createVersion")]
    /\ UNCHANGED <<files, versions, racy, prior, overwrites, page>>
    /\ Frame

\* A version numbered with the count alone.
NewVersionFromZero(r) ==
    [fileId |-> r.fileId, content |-> r.fileContent, version |-> r.cnt]

\* A version numbered without the count.
NewVersionAlwaysOne(r) ==
    [fileId |-> r.fileId, content |-> r.fileContent, version |-> 1]

\* The record of Version.create: the content of the document as saveFile read
\* it, numbered with the count it read, plus one.
NewVersion(r) ==
    [fileId |-> r.fileId, content |-> r.fileContent, version |-> r.cnt + 1]

\* A Version.create that keeps one record per document, the latest.
ExecVersionReplace(t) ==
    LET others == {i \in 1..Len(versions) : versions[i].fileId # tasks[t].fileId}
    IN  /\ Waiting(t, "save", "createVersion")
        /\ versions' = [i \in 1..Len(versions) |->
                            IF i \in others THEN versions[i]
                            ELSE NewVersion(tasks[t])]
        /\ tasks' = [tasks EXCEPT ![t] = Await(@, "fileSave")]
        /\ UNCHANGED <<files, racy, prior, overwrites, page>>
        /\ Frame

ExecVersionCreateSkipped(t) ==
    /\ Waiting(t, "save", "createVersion")
    /\ tasks' = [tasks EXCEPT ![t] = Await(@, "fileSave")]
    /\ UNCHANGED <<files, versions, racy, prior, overwrites, page>>
    /\ Frame

\* await Version.create(...); then file.content = content and file.save() is
\* called.
ExecVersionCreate(t) ==
    /\ Waiting(t, "save", "createVersion")
    /\ versions' = Append(versions, NewVersion(tasks[t]))
    /\ prior' = Append(prior, files[tasks[t].fileId].content)
    /\ racy' = Append(racy, tasks[t].overlapped)
    /\ tasks' = [tasks EXCEPT ![t] = Await(@, "fileSave")]
    /\ UNCHANGED <<files, overwrites, page>>
    /\ Frame

\* The File collection after file.save() of a document whose content was
\* assigned: mongoose updates the document of that _id with the paths that
\* were modified, and content is one of them only when the assigned value
\* differs from the value findOne loaded (lastModified, always written, is
\* not modelled).
FileSaved(r) ==
    IF r.content # r.fileContent
    THEN [files EXCEPT ![r.fileId].content = r.content]
    ELSE files

\* await file.save()
ExecFileSave(t) ==
    /\ Waiting(t, "save", "fileSave")
    /\ files' = FileSaved(tasks[t])
    /\ overwrites' = [overwrites EXCEPT ![tasks[t].filename] = @ + 1]
    /\ tasks' = [tasks EXCEPT ![t] = Result(@)]
    /\ UNCHANGED <<versions, racy, prior, page>>
    /\ Frame

\* file = await File.create({ filename, content, lastModified })
ExecFileCreate(t) ==
    /\ Waiting(t, "save", "createFile")
    /\ IF UniqueViolation(tasks[t].filename)
       THEN /\ tasks' = [tasks EXCEPT ![t] = Rejected(@)]
            /\ UNCHANGED files
       ELSE /\ files' = Append(files, [filename |-> tasks[t].filename,
                                       content |-> tasks[t].content])
            /\ tasks' = [tasks EXCEPT ![t] =
                            [Result(@) EXCEPT !.fileId = Len(files) + 1]]
    /\ UNCHANGED <<versions, racy, prior, overwrites, page>>
    /\ Frame

\* getFiles: const files = await File.find().select('filename')
ExecFind(t) ==
    /\ t \in TaskIds
    /\ tasks[t].phase = "wait"
    /\ tasks[t].pc = "find"
    /\ tasks' = [tasks EXCEPT ![t] = [Result(@) EXCEPT !.names = FindFilenames]]
    /\ UNCHANGED <<files, versions, racy, prior, overwrites, page>>
    /\ Frame

\* A lookup that ignores the _id it is given.
FindFirst(v) == IF versions # <<>> THEN <<versions[1]>> ELSE <<>>

\* Version.findById(versionId): the version of that _id, if there is one.
FindById(v) == IF v \in 1..Len(versions) THEN <<versions[v]>> ELSE <<>>

\* loadVersion: const version = await Version.findById(versionId); its content
\* is what loadVersion returns.
ExecFindById(t) ==
    /\ Waiting(t, "loadVersion", "findById")
    /\ LET hit == FindById(tasks[t].versionId)
       IN  tasks' = [tasks EXCEPT ![t] =
               IF hit # <<>>
               THEN [Result(@) EXCEPT !.found = TRUE, !.fileContent = hit[1].content]
               ELSE [Result(@) EXCEPT !.found = FALSE]]
    /\ UNCHANGED <<files, versions, racy, prior, overwrites, page>>
    /\ Frame

\* loadFile: const file = await File.findOne({ filename })
ExecLoadFindOne(t) ==
    /\ Waiting(t, "load", "findOne")
    /\ tasks' = [tasks EXCEPT ![t] = Result(Found(@))]
    /\ UNCHANGED <<files, versions, racy, prior, overwrites, page>>
    /\ Frame

\* getFileVersions: const file = await File.findOne({ filename }); if the
\* document is there Version.find is called.
ExecVersionsFindOne(t) ==
    /\ Waiting(t, "load", "findOneV")
    /\ tasks' = [tasks EXCEPT ![t] =
                    IF Found(@).fileId # 0 THEN Await(Found(@), "findVersions")
                    ELSE Result(Found(@))]
    /\ UNCHANGED <<files, versions, racy, prior, overwrites, page>>
    /\ Frame

\* The versions of the document in any order.
UnsortedVersions(fid) ==
    LET ids == {i \in 1..Len(versions) : versions[i].fileId = fid}
        n == Cardinality(ids)
    IN  {q \in [1..n -> ids] : \A i, j \in 1..n : i # j => q[i] # q[j]}

\* The orders Version.find({ fileId }).sort({ version: -1 }) can return: every
\* version of the document once, by descending version number; the store
\* leaves the order of equal numbers open.
SortedVersions(fid) ==
    LET ids == {i \in 1..Len(versions) : versions[i].fileId = fid}
        n == Cardinality(ids)
    IN  {q \in [1..n -> ids] :
            /\ \A i, j \in 1..n : i # j => q[i] # q[j]
            /\ \A i \in 1..n : \A j \in i..n :
                   versions[q[i]].version >= versions[q[j]].version}

\* .select('version timestamp'): _id and version of each (the timestamp is not
\* modelled).
Selected(q) == [i \in 1..Len(q) |-> [id |-> q[i], version |-> versions[q[i]].version]]

\* getFileVersions: const versions = await Version.find(...).sort(...).select(...)
ExecFindVersions(t) ==
    /\ Waiting(t, "load", "findVersions")
    /\ \E q \in SortedVersions(tasks[t].fileId) :
           tasks' = [tasks EXCEPT ![t] = [Result(@) EXCEPT !.rows = Selected(q)]]
    /\ UNCHANGED <<files, versions, racy, prior, overwrites, page>>
    /\ Frame

\* ------------------------------------------------------------- continuations
Locals ==
    UNCHANGED <<textData, files, versions, readyState, clients, faults,
                handled, racy, prior, overwrites, page, variant, returned, running>>

\* saveFile, loadFile, getFileVersions and loadVersion log and rethrow what
\* they catch (a rejected store call, 'File not found', 'Version not found');
\* the router catches nothing, so the handler ends there.
Thrown(r) ==
    \/ ~r.ok
    \/ r.kind = "load" /\ r.pc \in {"findOne", "findOneV"} /\ r.fileId = 0
    \/ r.kind = "loadVersion" /\ r.pc = "findById" /\ ~r.found

ResumeThrow(t) ==
    /\ t \in TaskIds
    /\ tasks[t].phase = "ready"
    /\ tasks[t].kind \in {"save", "load", "loadVersion"}
    /\ ~(tasks[t].kind = "save" /\ tasks[t].pc = "find")
    /\ Thrown(tasks[t])
    /\ tasks' = Ended(t)
    /\ UNCHANGED <<sent, saved>>
    /\ UNCHANGED inflight
    /\ Locals

\* An exit that takes the documents with it, as with a store kept in the
\* memory of the process.
ProcessExitVolatile(t) ==
    /\ t \in TaskIds
    /\ tasks[t].phase = "ready"
    /\ tasks[t].kind \in {"save", "load", "loadVersion"}
    /\ ~(tasks[t].kind = "save" /\ tasks[t].pc = "find")
    /\ Thrown(tasks[t])
    /\ running' = FALSE
    /\ readyState' = [s \in Sessions |->
                        IF readyState[s] = "NONE" THEN "NONE" ELSE "CLOSED"]
    /\ clients' = {}
    /\ tasks' = <<>>
    /\ inflight' = {}
    /\ files' = <<>>
    /\ UNCHANGED <<textData, versions, sent, faults, handled, saved,
                   racy, prior, overwrites, page, variant, returned>>

\* The same rejection where the runtime does not tolerate it: the promise the
\* async handler of ws.on('message') returned is rejected and nothing handles
\* it; Node raises an unhandled rejection as an uncaught exception (its
\* default since version 15) and the process exits, closing every socket and
\* abandoning every suspended call.  ResumeThrow is the outcome under a
\* runtime that only warns.
ProcessExit(t) ==
    /\ t \in TaskIds
    /\ tasks[t].phase = "ready"
    /\ tasks[t].kind \in {"save", "load", "loadVersion"}
    /\ ~(tasks[t].kind = "save" /\ tasks[t].pc = "find")
    /\ Thrown(tasks[t])
    /\ running' = FALSE
    /\ readyState' = [s \in Sessions |->
                        IF readyState[s] = "NONE" THEN "NONE" ELSE "CLOSED"]
    /\ clients' = {}
    /\ tasks' = <<>>
    /\ inflight' = {}
    /\ UNCHANGED <<textData, files, versions, sent, faults, handled, saved,
                   racy, prior, overwrites, page, variant, returned>>

\* saveFile returns to case 'SAVE_FILE': broadcast FILE_SAVED, then
\* broadcastFileList() runs, not awaited, up to its await of getFiles().
\* (heard is history: the sessions this FILE_SAVED was sent to.)
ResumeSaved(t) ==
    /\ t \in TaskIds
    /\ tasks[t].kind = "save" /\ tasks[t].phase = "ready"
    /\ tasks[t].pc \in {"fileSave", "createFile"}
    /\ tasks[t].ok
    /\ sent' = BroadcastToAll(sent, FileSavedMsg(tasks[t].filename))
    /\ saved' = saved \cup {tasks[t].filename}
    /\ tasks' = [tasks EXCEPT ![t] =
                    Await([@ EXCEPT !.heard = {s \in clients : readyState[s] = "OPEN"}],
                          "find")]
    /\ UNCHANGED inflight
    /\ Locals

\* getFiles(): the filenames, or [] when File.find() threw.
GetFiles(r) == IF r.ok THEN r.names ELSE <<>>

\* A refresh that goes to the saving session alone.
RefreshSender(t) ==
    /\ Ready(t, "save", "find")
    /\ sent' = WsSend(sent, tasks[t].sess, FileListMsg(GetFiles(tasks[t])))
    /\ tasks' = Ended(t)
    /\ UNCHANGED saved
    /\ UNCHANGED inflight
    /\ Locals

\* broadcastFileList after its await: broadcast FILE_LIST.
ResumeBroadcastFileList(t) ==
    /\ Ready(t, "save", "find")
    /\ sent' = BroadcastToAll(sent, FileListMsg(GetFiles(tasks[t])))
    /\ tasks' = Ended(t)
    /\ UNCHANGED saved
    /\ UNCHANGED inflight
    /\ Locals

\* A sendFileList that sends nothing when the listing failed.
ResumeSendFileListIfListed(t) ==
    /\ Ready(t, "list", "find")
    /\ sent' = IF tasks[t].ok
               THEN WsSend(sent, tasks[t].sess, FileListMsg(GetFiles(tasks[t])))
               ELSE sent
    /\ tasks' = Ended(t)
    /\ UNCHANGED saved
    /\ UNCHANGED inflight
    /\ Locals

\* sendFileList(ws) after its await: unicast FILE_LIST.
ResumeSendFileList(t) ==
    /\ Ready(t, "list", "find")
    /\ sent' = WsSend(sent, tasks[t].sess, FileListMsg(GetFiles(tasks[t])))
    /\ tasks' = Ended(t)
    /\ UNCHANGED saved
    /\ UNCHANGED inflight
    /\ Locals

\* case 'LOAD_VERSION' after await loadVersion: unicast FILE_LOADED with the
\* request's filename and the version's content.
ResumeLoadVersion(t) ==
    /\ Ready(t, "loadVersion", "findById")
    /\ ~Thrown(tasks[t])
    /\ sent' = WsSend(sent, tasks[t].sess,
                      FileLoadedMsg(tasks[t].filename, tasks[t].fileContent))
    /\ tasks' = Ended(t)
    /\ UNCHANGED saved
    /\ UNCHANGED inflight
    /\ Locals

\* A LOAD_FILE that makes the loaded content the shared text.
ResumeLoadFileIntoText(t) ==
    /\ Ready(t, "load", "findOne")
    /\ ~Thrown(tasks[t])
    /\ sent' = WsSend(sent, tasks[t].sess,
                      FileLoadedMsg(tasks[t].filename, tasks[t].fileContent))
    /\ tasks' = [tasks EXCEPT ![t] = Await(@, "findOneV")]
    /\ textData' = tasks[t].fileContent
    /\ UNCHANGED <<files, versions, readyState, clients, faults, handled,
                   racy, prior, overwrites, page, variant, returned, running,
                   saved, inflight>>

\* case 'LOAD_FILE' after await loadFile: unicast FILE_LOADED, then
\* getFileVersions runs up to its await File.findOne.
ResumeLoadFile(t) ==
    /\ Ready(t, "load", "findOne")
    /\ ~Thrown(tasks[t])
    /\ sent' = WsSend(sent, tasks[t].sess,
                      FileLoadedMsg(tasks[t].filename, tasks[t].fileContent))
    /\ tasks' = [tasks EXCEPT ![t] = Await(@, "findOneV")]
    /\ UNCHANGED saved
    /\ UNCHANGED inflight
    /\ Locals

\* case 'LOAD_FILE' after await getFileVersions: unicast FILE_VERSIONS.
ResumeFileVersions(t) ==
    /\ Ready(t, "load", "findVersions")
    /\ ~Thrown(tasks[t])
    /\ sent' = WsSend(sent, tasks[t].sess, FileVersionsMsg(tasks[t].rows))
    /\ tasks' = Ended(t)
    /\ UNCHANGED saved
    /\ UNCHANGED inflight
    /\ Locals

\* ------------------------------------------------------------- completion steps
AIFrame ==
    UNCHANGED <<textData, files, versions, readyState, clients, faults,
                handled, saved, racy, prior, overwrites, page, variant, running>>

\* The call of task t that is outstanding.
CallOf(t) ==
    {c \in inflight : c.req = tasks[t].req /\ c.attempt = tasks[t].attempts}

\* The endpoint answers 2xx with a body that parses: response.json() (or
\* response.text()) yields the raw text.  (enclosed is history: the code the
\* response was built around, where it was built as a fence around a code.)
EndpointAnswers(t, raw, code) ==
    /\ t \in TaskIds
    /\ Waiting(t, "ai", "fetch")
    /\ CallOf(t) # {}
    /\ inflight' = inflight \ CallOf(t)
    /\ tasks' = [tasks EXCEPT ![t] =
                    [Result(@) EXCEPT !.raw = raw, !.enclosed = code]]
    /\ UNCHANGED <<sent, returned, running>>
    /\ AIFrame

\* The same, for the two responses the completion specification draws from.
EndpointSucceeds(t) == \E raw \in RawResponses : EndpointAnswers(t, raw, <<>>)

\* The call fails: the connection fails, the status is not 2xx (server.ts
\* throws), or the body is not what the clean-up expects.
EndpointFails(t) ==
    /\ t \in TaskIds
    /\ Waiting(t, "ai", "fetch")
    /\ CallOf(t) # {}
    /\ inflight' = inflight \ CallOf(t)
    /\ tasks' = [tasks EXCEPT ![t] = Rejected(@)]
    /\ UNCHANGED <<sent, returned, running>>
    /\ AIFrame

\* getAICodeCompletion returns value to case 'AI_CODE_COMPLETION', which
\* sends it to the requester.  (returned is history.)
Return(t, value) ==
    /\ sent' = WsSend(sent, tasks[t].sess, AICompletionMsg(value))
    /\ returned' = returned \cup
          {[req |-> tasks[t].req, sess |-> tasks[t].sess, ok |-> tasks[t].ok,
            retries |-> tasks[t].retries, attempts |-> tasks[t].attempts,
            context |-> tasks[t].context, raw |-> tasks[t].raw,
            cursorPosition |-> tasks[t].cursorPosition, value |-> value]}
    /\ tasks' = Ended(t)

\* try block after the await: the text is cleaned and returned.
ResumeCompleted(t) ==
    /\ t \in TaskIds
    /\ Ready(t, "ai", "fetch")
    /\ tasks[t].ok
    /\ Return(t, Completion(tasks[t]))
    /\ UNCHANGED inflight
    /\ AIFrame

\* A loop that gives up one failure late.
ExhaustedLate(retries) == retries > maxRetries

\* if (retries >= maxRetries)
Exhausted(retries) == retries >= maxRetries

\* A retry that does not wait.
SleepNot(r) ==
    [r EXCEPT !.pc = "sleep", !.phase = "wait", !.timer = 0, !.waited = 0]

\* await new Promise(resolve => setTimeout(resolve, 1000))
\* (waited is history: the time spent in this sleep.)
Sleep(r) ==
    [r EXCEPT !.pc = "sleep", !.phase = "wait", !.timer = BackoffMs, !.waited = 0]

\* catch block: retries++; the sentinel is returned, and sent by case
\* 'AI_CODE_COMPLETION', when the retries are used up; else the sleep starts.
ResumeFailed(t) ==
    /\ t \in TaskIds
    /\ Ready(t, "ai", "fetch")
    /\ ~tasks[t].ok
    /\ IF Exhausted(tasks[t].retries + 1)
       THEN Return(t, Sentinel)
       ELSE /\ tasks' = [tasks EXCEPT ![t] = Sleep([@ EXCEPT !.retries = @ + 1])]
            /\ UNCHANGED <<sent, returned, running>>
    /\ UNCHANGED inflight
    /\ AIFrame

\* Half the backoff passes for every sleep that has not run out.
Tick ==
    /\ \E t \in TaskIds : Waiting(t, "ai", "sleep") /\ tasks[t].timer > 0
    /\ tasks' = [t \in TaskIds |->
                    IF Waiting(t, "ai", "sleep") /\ tasks[t].timer > 0
                    THEN [tasks[t] EXCEPT !.timer = @ - BackoffMs \div 2,
                                          !.waited = @ + BackoffMs \div 2]
                    ELSE tasks[t]]
    /\ UNCHANGED <<sent, inflight, returned, running>>
    /\ AIFrame

\* The timer resolves the sleep: while (retries < maxRetries) runs the next
\* attempt up to its await; past the loop 'Error' is returned and sent.
TimerFires(t) ==
    /\ t \in TaskIds
    /\ Waiting(t, "ai", "sleep")
    /\ tasks[t].timer = 0
    /\ IF tasks[t].retries < maxRetries
       THEN LET r == [tasks[t] EXCEPT !.pc = "fetch", !.attempts = @ + 1]
            IN  /\ tasks' = [tasks EXCEPT ![t] = r]
                /\ inflight' = Fetch(inflight, r)
                /\ UNCHANGED <<sent, returned, running>>
       ELSE /\ Return(t, <<"Error">>)
            /\ UNCHANGED inflight
    /\ AIFrame

\* ------------------------------------------------------------- specifications
StoreStep(t) ==
    \/ ExecSaveFindOne(t)
    \/ ExecCount(t)
    \/ ExecVersionCreate(t)
    \/ ExecFileSave(t)
    \/ ExecFileCreate(t)
    \/ ExecFind(t)
    \/ ExecFindById(t)
    \/ ExecLoadFindOne(t)
    \/ ExecVersionsFindOne(t)
    \/ ExecFindVersions(t)

Continue(t) ==
    \/ ResumeThrow(t)
    \/ ProcessExit(t)
    \/ ResumeSaved(t)
    \/ ResumeBroadcastFileList(t)
    \/ ResumeSendFileList(t)
    \/ ResumeLoadVersion(t)
    \/ ResumeLoadFile(t)
    \/ ResumeFileVersions(t)

\* No call is suspended.
Quiet == tasks = <<>>

SeqMsgs ==
    UpdateTextMsgs \cup SaveFileMsgs \cup GetFilesMsgs \cup LoadFileMsgs
        \cup LoadVersionMsgs \cup UnhandledMsgs

\* Two sessions whose every event is handled to its end before the next one
\* arrives.
NextSeq ==
    \/ \E s \in {"s1", "s2"} : Quiet /\ Connect(s)
    \/ \E s \in {"s1", "s2"}, m \in SeqMsgs : Quiet /\ OnMessage(s, m)
    \/ \E t \in TaskIds : StoreStep(t)
    \/ \E t \in TaskIds : Continue(t)

SpecSeq == Init /\ [][NextSeq]_vars

\* One session's saves of one document and its GET_FILES, interleaved at every
\* await.
RaceMsgs == {m \in SaveFileMsgs : m.filename = "a.txt"} \cup GetFilesMsgs

NextRace ==
    \/ Connect("s1")
    \/ \E m \in RaceMsgs : handled < MaxRace /\ OnMessage("s1", m)
    \/ \E t \in TaskIds :
        \/ ExecSaveFindOne(t)
        \/ ExecCount(t)
        \/ ExecVersionCreate(t)
        \/ ExecFileSave(t)
        \/ ExecFileCreate(t)
        \/ ExecFind(t)
        \/ ResumeThrow(t)
        \/ ProcessExit(t)
        \/ ResumeSaved(t)
        \/ ResumeBroadcastFileList(t)
        \/ ResumeSendFileList(t)

SpecRace == Init /\ [][NextRace]_vars

\* One session's saves of one document, none begun while another is in
\* flight, and its GET_FILES, over a store that may fail any call.
NoSaveInFlight == \A t \in TaskIds : ~SaveInFlight(t)

NextFault ==
    \/ Connect("s1")
    \/ \E m \in RaceMsgs :
          handled < MaxRace /\ NoSaveInFlight /\ OnMessage("s1", m)
    \/ \E t \in TaskIds :
        \/ ExecSaveFindOne(t)
        \/ ExecCount(t)
        \/ ExecVersionCreate(t)
        \/ ExecFileSave(t)
        \/ ExecFileCreate(t)
        \/ ExecFind(t)
        \/ StoreFault(t)
        \/ ResumeThrow(t)
        \/ ProcessExit(t)
        \/ ResumeSaved(t)
        \/ ResumeBroadcastFileList(t)
        \/ ResumeSendFileList(t)

SpecFault == Init /\ [][NextFault]_vars

\* Two sessions, of which s1 saves one document with one content, no save
\* begun while another is in flight, and s2 may leave, over a store that may fail any call.  The
\* store answers every call in the end and the event loop runs every
\* continuation.
NextSave ==
    \/ \E s \in {"s1", "s2"} : Connect(s)
    \/ FinishClose("s2")
    \/ \E m \in SaveFileMsgs :
          /\ m.filename = "a.txt"
          /\ m.content = "y"
          /\ handled < MaxSaves
          /\ NoSaveInFlight
          /\ OnMessage("s1", m)
    \/ \E t \in TaskIds :
        \/ ExecSaveFindOne(t)
        \/ ExecCount(t)
        \/ ExecVersionCreate(t)
        \/ ExecFileSave(t)
        \/ ExecFileCreate(t)
        \/ ExecFind(t)
        \/ StoreFault(t)
    \/ \E t \in TaskIds :
        \/ ResumeThrow(t)
        \/ ProcessExit(t)
        \/ ResumeSaved(t)
        \/ ResumeBroadcastFileList(t)
        \/ ResumeSendFileList(t)

Progress == \E t \in TaskIds : StoreStep(t) \/ StoreFault(t) \/ Continue(t)

SpecSave == Init /\ [][NextSave]_vars /\ WF_vars(Progress)

\* Two sessions connect while s1 rewrites the shared text and s2 may leave,
\* over a store that may fail the listing query.  The store answers every
\* call in the end and the event loop runs every continuation.
NextHandshake ==
    \/ \E s \in {"s1", "s2"} : Connect(s)
    \/ FinishClose("s2")
    \/ \E m \in UpdateTextMsgs : handled < MaxText /\ OnMessage("s1", m)
    \/ \E t \in TaskIds : ExecFind(t)
    \/ \E t \in TaskIds : StoreFault(t)
    \/ \E t \in TaskIds : ResumeSendFileList(t)

SpecHandshake == Init /\ [][NextHandshake]_vars /\ WF_vars(Progress)

\* The store as an earlier run left it after saves of two documents: a.txt
\* was created with x, overwritten with y and then with x; b.txt was created
\* with y and overwritten with x between the two overwrites of a.txt.  (The
\* history of the versions is set as those saves left it; the histories of
\* this run start empty.)
InitLoad ==
    /\ textData = ""
    /\ files = <<[filename |-> "a.txt", content |-> "x"],
                 [filename |-> "b.txt", content |-> "x"]>>
    /\ versions = <<[fileId |-> 1, content |-> "x", version |-> 1],
                    [fileId |-> 2, content |-> "y", version |-> 1],
                    [fileId |-> 1, content |-> "y", version |-> 2]>>
    /\ readyState = [s \in Sessions |-> "NONE"]
    /\ clients = {}
    /\ sent = [s \in Sessions |-> <<>>]
    /\ tasks = <<>>
    /\ faults = 0
    /\ handled = 0
    /\ saved = {}
    /\ overwrites = [fn \in Filenames |-> 0]
    /\ page = Unmounted
    /\ racy = <<FALSE, FALSE, FALSE>>
    /\ prior = <<"x", "y", "y">>
    /\ inflight = {}
    /\ returned = {}
    /\ running = TRUE
    /\ variant = "ollama"

\* s1 requests what the store holds, among it a version of either document
\* under the name b.txt, and a completion; s2 lists, loads a.txt and
\* overwrites it; a message arrives while at most one call is suspended.
LoadMsgs ==
    GetFilesMsgs
        \cup {m \in LoadFileMsgs : m.filename = "a.txt"}
        \cup {m \in LoadVersionMsgs : m.versionId \in {1, 2} /\ m.filename = "b.txt"}
        \cup {m \in AIMsgs : m.cursorPosition = Undefined}

OverwriteMsgs ==
    GetFilesMsgs
        \cup {m \in LoadFileMsgs : m.filename = "a.txt"}
        \cup {m \in SaveFileMsgs : m.filename = "a.txt" /\ m.content = "y"}

NextLoad ==
    \/ \E s \in {"s1", "s2"} : Connect(s)
    \/ \E m \in LoadMsgs :
          /\ handled < MaxLoads
          /\ Len(tasks) <= 1
          /\ OnMessage("s1", m)
    \/ \E m \in OverwriteMsgs :
          /\ handled < MaxLoads
          /\ Len(tasks) <= 1
          /\ OnMessage("s2", m)
    \/ \E t \in TaskIds : StoreStep(t)
    \/ \E t \in TaskIds :
        \/ ResumeSaved(t)
        \/ ResumeBroadcastFileList(t)
        \/ ResumeSendFileList(t)
        \/ ResumeLoadVersion(t)
        \/ ResumeLoadFile(t)
        \/ ResumeFileVersions(t)
    \/ \E t \in TaskIds : EndpointSucceeds(t)
    \/ \E t \in TaskIds : ResumeCompleted(t)

SpecLoad == InitLoad /\ [][NextLoad]_vars

\* Responses wrapped in a fence: the opening fence with or without a language
\* word and its line end, the code, and the closing fence on a line of its
\* own or straight after the code, with or without a line end after it.  The
\* code is any text of up to MaxCode characters that holds no fence.
CodeChars == {"f", ";", " ", "\n", BQ}
Langs == {<<>>, <<"j">>}
Closings == {<<"\n", BQ, BQ, BQ>>, <<BQ, BQ, BQ>>, <<"\n", BQ, BQ, BQ, "\n">>}
NoFence(t) == \A i \in 1..Len(t) : ~FenceAt(t, i)
Codes ==
    {c \in UNION {[1..n -> CodeChars] : n \in 0..MaxCode} : NoFence(c)}
Wrap(lang, code, close) == Fence \o lang \o <<"\n">> \o code \o close

\* "```java\nfoo();\n```"
Java == <<"j", "a", "v", "a">>
Foo == <<"f", "o", "o", "(", ")", ";">>
JavaFoo == Wrap(Java, Foo, <<"\n", BQ, BQ, BQ>>)

FencedCases ==
    (Langs \X Codes \X Closings) \cup {<<Java, Foo, <<"\n", BQ, BQ, BQ>>>>}

\* One session asks server.ts for one completion with no cursor position,
\* once its handshake is over, and the endpoint answers with a fenced
\* response.
NextClean ==
    \/ Connect("s1")
    \/ \E m \in AIMsgs :
          /\ handled < 1
          /\ Quiet
          /\ m.cursorPosition = Undefined
          /\ OnMessage("s1", m)
    \/ \E t \in TaskIds : ExecFind(t)
    \/ \E t \in TaskIds : ResumeSendFileList(t)
    \/ \E t \in TaskIds :
          /\ Waiting(t, "ai", "fetch")
          /\ \E c \in FencedCases :
                EndpointAnswers(t, Wrap(c[1], c[2], c[3]), c[2])
    \/ \E t \in TaskIds : ResumeCompleted(t)

SpecClean == Init /\ [][NextClean]_vars

\* One session asks server.ts for one completion with a cursor position:
\* the editor text is any text of up to MaxCode characters over a letter, the
\* space and the line end, the cursor is at any offset in it or one past its
\* end, and the endpoint answers with one line, with two lines (the second
\* indented or not) or with lines around an empty or a blank one.
Contexts == UNION {[1..n -> {"a", " ", "\n"}] : n \in 0..MaxCode}
Snippets ==
    {<<"f">>, <<"f", "\n", "o">>, <<"f", "\n", " ", "o">>,
     <<"f", "\n", "\n", "o">>, <<"f", "\n", " ", "\n", "o">>}

NextIndent ==
    \/ Connect("s1")
    \/ \E c \in Contexts, p \in 0..(MaxCode + 1) :
          /\ handled < 1
          /\ Quiet
          /\ p <= Len(c) + 1
          /\ OnMessage("s1", [type |-> "AI_CODE_COMPLETION", content |-> c,
                              cursorPosition |-> p])
    \/ \E t \in TaskIds : ExecFind(t)
    \/ \E t \in TaskIds : ResumeSendFileList(t)
    \/ \E t \in TaskIds :
          /\ Waiting(t, "ai", "fetch")
          /\ \E raw \in Snippets : EndpointAnswers(t, raw, <<>>)
    \/ \E t \in TaskIds : ResumeCompleted(t)

SpecIndent == Init /\ [][NextIndent]_vars

\* One session asks server.ts for completions, with no cursor position, and
\* for a document the store does not hold; the endpoint's answer, when it gives one, is the one
\* character f.  Every call to the endpoint returns or fails in the end, time
\* passes, and the event loop runs every continuation and every timer that
\* is due.
ShortAnswers(t) == EndpointAnswers(t, <<"f">>, <<>>)

NextAbort ==
    \/ Connect("s1")
    \/ \E m \in AIMsgs :
          /\ m.cursorPosition = Undefined
          /\ handled < MaxAI
          /\ OnMessage("s1", m)
    \/ \E m \in LoadFileMsgs :
          m.filename = "b.txt" /\ handled < MaxAI /\ OnMessage("s1", m)
    \/ \E t \in TaskIds : ExecFind(t)
    \/ \E t \in TaskIds : ResumeSendFileList(t)
    \/ \E t \in TaskIds : ExecLoadFindOne(t)
    \/ \E t \in TaskIds : ResumeThrow(t)
    \/ \E t \in TaskIds : ProcessExit(t)
    \/ \E t \in TaskIds : ShortAnswers(t)
    \/ \E t \in TaskIds : EndpointFails(t)
    \/ \E t \in TaskIds : ResumeCompleted(t)
    \/ \E t \in TaskIds : ResumeFailed(t)
    \/ Tick
    \/ \E t \in TaskIds : TimerFires(t)

EndpointEnds == \E t \in TaskIds : ShortAnswers(t) \/ EndpointFails(t)
LoopRuns ==
    \E t \in TaskIds : ResumeCompleted(t) \/ ResumeFailed(t) \/ TimerFires(t)

SpecAbort ==
    /\ Init
    /\ [][NextAbort]_vars
    /\ WF_vars(EndpointEnds)
    /\ WF_vars(LoopRuns)
    /\ WF_vars(Tick)

\* s1 asks server.ts for a completion, and the endpoint never answers that
\* call; after it both sessions send text updates, saves of a.txt, GET_FILES
\* and further completion requests, whose calls the endpoint does answer, each
\* of them while the first request is the only other one in progress.  The
\* store answers every call in the end and the event loop runs every
\* continuation.
Hung(t) == tasks[t].kind = "ai" /\ tasks[t].req = 1

StallMsgs ==
    {m \in UpdateTextMsgs : m.content = "x"}
        \cup {m \in SaveFileMsgs : m.filename = "a.txt" /\ m.content = "y"}
        \cup GetFilesMsgs
        \cup {m \in AIMsgs : m.cursorPosition = Undefined}

NextStall ==
    \/ \E s \in {"s1", "s2"} : handled = 0 /\ Connect(s)
    \/ \E m \in AIMsgs :
          /\ handled = 0
          /\ m.cursorPosition = Undefined
          /\ OnMessage("s1", m)
    \/ \E s \in {"s1", "s2"}, m \in StallMsgs :
          /\ handled >= 1
          /\ Len(tasks) <= 1
          /\ OnMessage(s, m)
    \/ \E t \in TaskIds : StoreStep(t)
    \/ \E t \in TaskIds : ResumeSaved(t)
    \/ \E t \in TaskIds : ResumeBroadcastFileList(t)
    \/ \E t \in TaskIds : ResumeSendFileList(t)
    \/ \E t \in TaskIds : ~Hung(t) /\ ShortAnswers(t)
    \/ \E t \in TaskIds : ResumeCompleted(t)

Served ==
    \E t \in TaskIds :
        \/ StoreStep(t)
        \/ ResumeSaved(t)
        \/ ResumeBroadcastFileList(t)
        \/ ResumeSendFileList(t)
        \/ ~Hung(t) /\ ShortAnswers(t)
        \/ ResumeCompleted(t)

SpecStall == Init /\ [][NextStall]_vars /\ WF_vars(Served)

\* A store left by an earlier run: a.txt, overwritten once.  One session sends
\* saves of either document (of a.txt with a third content too), text updates, listings, loads and completion
\* requests, over a store that may fail any call; a save may arrive while the
\* saveFile call of one other is in flight, any other message arrives while
\* no call is suspended.
InitStore ==
    /\ textData = ""
    /\ files = <<[filename |-> "a.txt", content |-> "y"]>>
    /\ versions = <<[fileId |-> 1, content |-> "x", version |-> 1]>>
    /\ readyState = [s \in Sessions |-> "NONE"]
    /\ clients = {}
    /\ sent = [s \in Sessions |-> <<>>]
    /\ tasks = <<>>
    /\ faults = 0
    /\ handled = 0
    /\ saved = {}
    /\ overwrites = [fn \in Filenames |-> 0]
    /\ page = Unmounted
    /\ racy = <<FALSE>>
    /\ prior = <<"x">>
    /\ inflight = {}
    /\ returned = {}
    /\ running = TRUE
    /\ variant = "ollama"

StoreMsgs ==
    SaveFileMsgs
        \cup {[type |-> "SAVE_FILE", filename |-> "a.txt", content |-> "z"]}
        \cup {m \in UpdateTextMsgs : m.content = "x"}
        \cup GetFilesMsgs
        \cup {m \in LoadFileMsgs : m.filename = "a.txt"}
        \cup {m \in LoadVersionMsgs : m.versionId = 1 /\ m.filename = "a.txt"}
        \cup {m \in AIMsgs : m.cursorPosition = Undefined}

NextStore ==
    \/ Connect("s1")
    \/ \E m \in StoreMsgs :
          /\ handled < MaxRace
          /\ \/ Quiet
             \/ m.type = "SAVE_FILE" /\ Len(tasks) = 1 /\ SaveInFlight(1)
          /\ OnMessage("s1", m)
    \/ \E t \in TaskIds : StoreStep(t)
    \/ \E t \in TaskIds : StoreFault(t)
    \/ \E t \in TaskIds : Continue(t)
    \/ \E t \in TaskIds : ShortAnswers(t)
    \/ \E t \in TaskIds : ResumeCompleted(t)

SpecStore == InitStore /\ [][NextStore]_vars

\* One client component, from before its mount: its socket opens, fails or
\* drops, its timers fire, and it may be destroyed.  Time passes, and the
\* browser runs every timeout that is due.
NextClient ==
    \/ Mount
    \/ OnOpen
    \/ OnClose
    \/ ClientTick
    \/ \E i \in 1..MaxSockets : ReconnectFires(i)
    \/ \E id \in 1..MaxSockets : PingFires(id)
    \/ Teardown

SpecClient ==
    /\ Init
    /\ [][NextClient]_vars
    /\ WF_vars(ClientTick)
    /\ WF_vars(\E i \in 1..MaxSockets : ReconnectFires(i))

\* Three sessions, one of which closes, while text updates and tags without
\* a case arrive.
TextMsgs == UpdateTextMsgs \cup UnhandledMsgs

NextText ==
    \/ \E s \in Sessions : Connect(s)
    \/ BeginClose("s3")
    \/ FinishClose("s3")
    \/ \E s \in Sessions, m \in TextMsgs : handled < MaxText /\ OnMessage(s, m)
    \/ \E t \in TaskIds : ExecFind(t)
    \/ \E t \in TaskIds : ResumeSendFileList(t)

SpecText == Init /\ [][NextText]_vars

\* One session's completion requests against an endpoint that may fail any
\* call, under either server and over an empty store; the hundred attempts
\* of the Gemini variant are followed for its first request.
InitAI == Start /\ variant \in Variants /\ files = <<>>

NoCompletionPending == \A t \in TaskIds : tasks[t].kind # "ai"

NextAI ==
    \/ Connect("s1")
    \/ \E m \in AIMsgs :
          /\ handled < MaxAI
          /\ variant = "gemini" => NoCompletionPending /\ returned = {}
          /\ OnMessage("s1", m)
    \/ \E t \in TaskIds : ExecFind(t)
    \/ \E t \in TaskIds : ResumeSendFileList(t)
    \/ \E t \in TaskIds : EndpointSucceeds(t)
    \/ \E t \in TaskIds : EndpointFails(t)
    \/ \E t \in TaskIds : ResumeCompleted(t)
    \/ \E t \in TaskIds : ResumeFailed(t)
    \/ Tick
    \/ \E t \in TaskIds : TimerFires(t)

SpecAI == InitAI /\ [][NextAI]_vars

\* ------------------------------------------------------------- properties
VersionsOf(fid) == SelectSeq(versions, LAMBDA v : v.fileId = fid)
Occurrences(q, x) == Cardinality({i \in 1..Len(q) : q[i] = x})
Delivered(s, m) == \E i \in 1..Len(sent[s]) : sent[s][i] = m

\* C1: when every save runs to its end before the next message arrives, the
\* versions of each document are numbered 1, 2, 3, ... in the order in which
\* the saves created them.
C1_SequentialNumbering ==
    \A fid \in 1..Len(files) :
        \A k \in 1..Len(VersionsOf(fid)) : VersionsOf(fid)[k].version = k

\* Three overwriting saves of one document have completed.
C1_Witness ==
    \E fid \in 1..Len(files) : Len(VersionsOf(fid)) = 3 /\ Quiet

\* C2: two versions of one document carry the same number only when the saves
\* that created them were in flight together; that such a state is reached is
\* C2_Witness.
C2_DuplicateOnlyByRace ==
    \A v, w \in 1..Len(versions) :
        (v # w /\ versions[v].fileId = versions[w].fileId
               /\ versions[v].version = versions[w].version)
            => racy[v] /\ racy[w]

\* Two versions of one document are both numbered 1.
C2_Witness ==
    \E v, w \in 1..Len(versions) :
        /\ v # w
        /\ versions[v].fileId = versions[w].fileId
        /\ versions[v].version = 1
        /\ versions[w].version = 1

\* C3: loadVersion of any stored version returns the content its document had
\* in the store when the save created the version, just before it overwrote
\* the document.
C3_LoadVersionReproducesPrior ==
    \A v \in 1..Len(versions) : FindById(v)[1].content = prior[v]

\* What remains of C3 under the race of saveFile: loadVersion returns the
\* content the document had when the version was created for every version
\* whose save overlapped no other save of the same filename.
C3_LoadVersionReproducesPriorUnlessRaced ==
    \A v \in 1..Len(versions) :
        ~racy[v] => FindById(v) # <<>> /\ FindById(v)[1].content = prior[v]

\* A save that overlapped no other has versioned a document and overwritten it
\* with another content.
C3_Witness ==
    \E v \in 1..Len(versions) :
        /\ ~racy[v]
        /\ files[versions[v].fileId].content # versions[v].content
        /\ Quiet

\* C4 as stated: the FILE_LIST that answers a sendFileList called after the
\* SAVE_FILE of a filename completed holds that filename exactly once.
C4_SavedFileListedOnce ==
    \A t \in TaskIds :
        (tasks[t].kind = "list" /\ tasks[t].phase = "ready")
            => \A fn \in tasks[t].known : Occurrences(GetFiles(tasks[t]), fn) = 1

\* C4 as amended: the FILE_LIST that answers a sendFileList called after the
\* SAVE_FILE of a filename completed holds that filename exactly once,
\* provided the store answered the listing query.
C4_SavedFileListedOnceWhenListed ==
    \A t \in TaskIds :
        (tasks[t].kind = "list" /\ tasks[t].phase = "ready" /\ tasks[t].ok)
            => \A fn \in tasks[t].known : Occurrences(GetFiles(tasks[t]), fn) = 1

\* A list the store answered is about to be sent that was asked for after
\* the save that created a.txt completed (no version exists, so that save
\* overwrote nothing).
C4_Witness ==
    \E t \in TaskIds :
        /\ tasks[t].kind = "list" /\ tasks[t].phase = "ready" /\ tasks[t].ok
        /\ "a.txt" \in tasks[t].known
        /\ versions = <<>>

\* C5: the broadcast of a handled UPDATE_TEXT appends its message once to what
\* every OPEN session has been sent and leaves every other session's
\* untouched, and no step at all sends to a session that is not OPEN.
C5_BroadcastFanout ==
    [][/\ \A s \in Sessions, m \in UpdateTextMsgs :
            OnMessage(s, m) =>
                \A r \in Sessions :
                    sent'[r] = IF readyState[r] = "OPEN"
                               THEN Append(sent[r], TextUpdated(m.content))
                               ELSE sent[r]
       /\ \A r \in Sessions :
            (readyState[r] # "OPEN" /\ readyState'[r] # "OPEN") => sent'[r] = sent[r]
      ]_vars

\* One UPDATE_TEXT was broadcast to s1 and s2 while s3, connected before it,
\* was closing: s3 holds its handshake alone.
C5_Witness ==
    /\ handled = 1
    /\ Delivered("s1", TextUpdated("x"))
    /\ Delivered("s2", TextUpdated("x"))
    /\ readyState["s3"] = "CLOSING"
    /\ Delivered("s3", TextUpdated(""))
    /\ ~Delivered("s3", TextUpdated("x"))

\* C9: handling a message whose tag has no case sends nothing and leaves the
\* text buffer, the documents and the versions as they are.
C9_UnhandledIgnored ==
    [][\A s \in Sessions, m \in UnhandledMsgs :
            OnMessage(s, m) => UNCHANGED <<sent, textData, files, versions, tasks>>
      ]_vars

\* Messages were handled, none of them an UPDATE_TEXT (every text a session
\* was sent is the empty buffer of the handshake).
C9_Witness ==
    /\ handled = MaxText
    /\ \A s \in Sessions : \A i \in 1..Len(sent[s]) :
            sent[s][i].type = "TEXT_UPDATED" => sent[s][i].content = ""

\* C10: handling UPDATE_TEXT sets the buffer to the message's content and
\* sends TEXT_UPDATED with that content to every OPEN session, the sender
\* among them; no other step changes the buffer.
C10_LastWriterWins ==
    [][/\ \A s \in Sessions, m \in UpdateTextMsgs :
            OnMessage(s, m) =>
                /\ textData' = m.content
                /\ sent'[s] = Append(sent[s], TextUpdated(m.content))
                /\ \A r \in Sessions :
                       readyState[r] = "OPEN" =>
                           sent'[r] = Append(sent[r], TextUpdated(m.content))
       /\ (~ \E s \in Sessions, m \in UpdateTextMsgs : OnMessage(s, m))
            => textData' = textData
      ]_vars

\* Two sessions have updated the text in turn; the buffer holds the second
\* update, and both were sent both.
C10_Witness ==
    /\ textData = "y"
    /\ \E i, j \in 1..Len(sent["s1"]) :
          i < j /\ sent["s1"][i] = TextUpdated("x") /\ sent["s1"][j] = TextUpdated("y")
    /\ \E i, j \in 1..Len(sent["s2"]) :
          i < j /\ sent["s2"][i] = TextUpdated("x") /\ sent["s2"][j] = TextUpdated("y")

AITasks == {t \in TaskIds : tasks[t].kind = "ai"}
CompletionDelivered(h) ==
    \E i \in 1..Len(sent[h.sess]) :
        /\ sent[h.sess][i].type = "AI_CODE_COMPLETION"
        /\ sent[h.sess][i].content = h.value

\* C6: under server.ts (maxRetries = 3) a call of getAICodeCompletion whose
\* first two attempts failed and whose third succeeded has made exactly three
\* attempts and returned the completion made of the third answer, cleaned (and
\* indented when a cursor position came with the request), not the sentinel,
\* and that text was sent to the requester; and every attempt after the first
\* began only after a sleep of the full backoff.
C6_ThirdAttemptSucceeds ==
    variant = "ollama" =>
        /\ \A t \in AITasks :
              tasks[t].pc = "fetch" /\ tasks[t].attempts >= 2 =>
                  tasks[t].waited >= BackoffMs
        /\ \A h \in returned :
              h.ok /\ h.retries = 2 =>
                  /\ h.attempts = 3
                  /\ h.value = Completion(h)
                  /\ h.cursorPosition = Undefined => h.value = Clean(h.raw)
                  /\ h.value # Sentinel
                  /\ CompletionDelivered(h)

\* Under server.ts a call has returned the third answer after two failures.
C6_Witness ==
    /\ variant = "ollama"
    /\ \E h \in returned :
          h.ok /\ h.retries = 2 /\ h.attempts = 3 /\ CompletionDelivered(h)

\* C7: no call of getAICodeCompletion makes more than maxRetries attempts (3
\* under server.ts, 100 under the Gemini variant), and a call that returned
\* without a successful attempt made exactly maxRetries attempts and returned
\* the sentinel string, which was sent to the requester as the content of an
\* AI_CODE_COMPLETION message.
C7_ExhaustedReturnsSentinel ==
    /\ maxRetries = IF variant = "gemini" THEN 100 ELSE 3
    /\ \A t \in AITasks : tasks[t].attempts <= maxRetries
    /\ \A h \in returned :
          /\ h.attempts <= maxRetries
          /\ ~h.ok =>
                /\ h.attempts = maxRetries
                /\ h.value = Sentinel
                /\ CompletionDelivered(h)

\* Under the Gemini variant a call has returned after a hundred failed
\* attempts.
C7_Witness ==
    /\ variant = "gemini"
    /\ \E h \in returned :
          ~h.ok /\ h.attempts = MaxRetriesGemini /\ CompletionDelivered(h)

\* The request a call belongs to is suspended on it in this state.
AwaitedBy(c, q) ==
    \E t \in 1..Len(q) :
        /\ q[t].kind = "ai" /\ q[t].req = c.req
        /\ q[t].pc = "fetch" /\ q[t].attempts = c.attempt

\* C8: at no time are two calls to the endpoint outstanding for one request;
\* a call other than a request's first is issued only in a step that finds
\* the request asleep after as many failures as it has made attempts, with
\* the whole backoff slept and no call of its own outstanding; and a call
\* stops being outstanding only in the step that hands its outcome to the
\* request that awaits it.
C8_OneCallInFlight ==
    /\ [](\A c, d \in inflight : c.req = d.req => c = d)
    /\ [][\A c \in inflight' \ inflight :
            c.attempt > 1 =>
                \E t \in AITasks :
                    /\ tasks[t].req = c.req
                    /\ tasks[t].pc = "sleep"
                    /\ tasks[t].retries = c.attempt - 1
                    /\ tasks[t].attempts = c.attempt - 1
                    /\ tasks[t].timer = 0
                    /\ tasks[t].waited >= BackoffMs
                    /\ \A d \in inflight : d.req # c.req
         ]_vars
    /\ [][\A c \in inflight \ inflight' :
            /\ AwaitedBy(c, tasks)
            /\ AwaitedBy(c, tasks')
            /\ \E t \in 1..Len(tasks') :
                  tasks'[t].req = c.req /\ tasks'[t].phase = "ready"
         ]_vars

\* Two requests each have a call outstanding, one of them its third.
C8_Witness ==
    \E c, d \in inflight :
        /\ c.req # d.req
        /\ c.attempt = 3
        /\ AwaitedBy(c, tasks)
        /\ AwaitedBy(d, tasks)

\* The save of task t has returned: its FILE_SAVED was broadcast and its
\* FILE_LIST is still to come.
Refreshing(t) == tasks[t].kind = "save" /\ tasks[t].pc = "find"
RefreshOwed == \E t \in TaskIds : Refreshing(t)
GotFileSaved(s, fn) ==
    \E i \in 1..Len(sent[s]) :
        sent[s][i].type = "FILE_SAVED" /\ sent[s][i].filename = fn

\* The step appends to what s was sent one FILE_LIST, which holds fn when
\* listed is true.
GetsFileList(s, fn, listed) ==
    /\ Len(sent'[s]) = Len(sent[s]) + 1
    /\ SubSeq(sent'[s], 1, Len(sent[s])) = sent[s]
    /\ sent'[s][Len(sent'[s])].type = "FILE_LIST"
    /\ listed => Occurrences(sent'[s][Len(sent'[s])].files, fn) >= 1

\* C11 as stated: every session that was open when a save returned has been
\* sent the FILE_SAVED of its filename; the refresh of that save sends every
\* session that is open a FILE_LIST that holds the filename, after that
\* FILE_SAVED; and the refresh of a returned save does come.
C11_SavedThenListed ==
    /\ [](\A t \in TaskIds :
            Refreshing(t) => \A s \in tasks[t].heard :
                                GotFileSaved(s, tasks[t].filename))
    /\ [][\A t \in TaskIds :
            ResumeBroadcastFileList(t) =>
                \A s \in Sessions :
                    readyState[s] = "OPEN" =>
                        GetsFileList(s, tasks[t].filename, TRUE)
         ]_vars
    /\ RefreshOwed ~> ~RefreshOwed

\* C11 as amended: the same, where the FILE_LIST holds the filename provided
\* the store answered the listing query of the refresh.
C11_SavedThenListedWhenListed ==
    /\ [](\A t \in TaskIds :
            Refreshing(t) => \A s \in tasks[t].heard :
                                GotFileSaved(s, tasks[t].filename))
    /\ [][\A t \in TaskIds :
            ResumeBroadcastFileList(t) =>
                \A s \in Sessions :
                    readyState[s] = "OPEN" =>
                        GetsFileList(s, tasks[t].filename, tasks[t].ok)
         ]_vars
    /\ RefreshOwed ~> ~RefreshOwed

\* Both sessions were sent FILE_SAVED for a.txt and, after it, a FILE_LIST
\* that holds a.txt, and no refresh is to come.
C11_Witness ==
    /\ tasks = <<>>
    /\ \A s \in {"s1", "s2"} :
          /\ readyState[s] = "OPEN"
          /\ \E i, j \in 1..Len(sent[s]) :
                /\ i < j
                /\ sent[s][i].type = "FILE_SAVED" /\ sent[s][i].filename = "a.txt"
                /\ sent[s][j].type = "FILE_LIST"
                /\ Occurrences(sent[s][j].files, "a.txt") = 1


\* sendFileList of the handshake of s has not finished.
Greeting(s) == \E t \in TaskIds : tasks[t].kind = "list" /\ tasks[t].sess = s

\* The step appends one FILE_LIST to what s was sent.
GetsAFileList(s) ==
    /\ Len(sent'[s]) = Len(sent[s]) + 1
    /\ SubSeq(sent'[s], 1, Len(sent[s])) = sent[s]
    /\ sent'[s][Len(sent'[s])].type = "FILE_LIST"

\* C12: a connection is sent, with no request, first a TEXT_UPDATED that
\* carries the shared text as it is when it connects, and its listing is
\* begun; whatever else a session is sent comes after that TEXT_UPDATED; the
\* handshake listing ends by sending the session, if it is still open, a
\* FILE_LIST; and the handshake listing does end.
C12_HandshakeTextThenList ==
    /\ [][\A s \in Sessions :
            (readyState[s] = "NONE" /\ readyState'[s] = "OPEN") =>
                /\ sent'[s] = <<TextUpdated(textData)>>
                /\ Greeting(s)'
         ]_vars
    /\ [](\A s \in Sessions :
            readyState[s] # "NONE" =>
                sent[s] # <<>> /\ sent[s][1].type = "TEXT_UPDATED")
    /\ [][\A t \in TaskIds :
            ResumeSendFileList(t) =>
                (readyState[tasks[t].sess] = "OPEN" => GetsAFileList(tasks[t].sess))
         ]_vars
    /\ \A s \in {"s1", "s2"} : Greeting(s) ~> ~Greeting(s)

\* s2 connected after the shared text became "y": it was sent that text and
\* then a FILE_LIST, and its handshake is over.
C12_Witness ==
    /\ readyState["s2"] = "OPEN"
    /\ ~Greeting("s2")
    /\ Len(sent["s2"]) >= 2
    /\ sent["s2"][1] = TextUpdated("y")
    /\ sent["s2"][2].type = "FILE_LIST"


\* The saves of the document fid that have created their version and whose
\* file.save() has not been carried out.
BetweenCreateAndSave(fid) ==
    {t \in TaskIds : /\ tasks[t].kind = "save"
                     /\ tasks[t].pc = "fileSave"
                     /\ tasks[t].fileId = fid}

ListingFailed(t) ==
    tasks[t].pc = "find" /\ tasks[t].phase = "ready" /\ ~tasks[t].ok

\* C14: a listing whose store query failed does not end its handler by a
\* throw; its continuation sends FILE_LIST with the empty list, to the
\* requesting session if it is open (handshake, GET_FILES) or to every open
\* session (refresh after a save), and the process goes on.
C14_ListFaultGivesEmptyList ==
    /\ [](\A t \in TaskIds :
            ListingFailed(t) =>
                /\ ~ENABLED ResumeThrow(t)
                /\ ~ENABLED ProcessExit(t)
                /\ ENABLED (ResumeSendFileList(t) \/ ResumeBroadcastFileList(t)))
    /\ [][\A t \in TaskIds :
            (ListingFailed(t) /\ ResumeSendFileList(t)) =>
                /\ running'
                /\ readyState[tasks[t].sess] = "OPEN" =>
                      sent'[tasks[t].sess] =
                          Append(sent[tasks[t].sess], FileListMsg(<<>>))
         ]_vars
    /\ [][\A t \in TaskIds :
            (ListingFailed(t) /\ ResumeBroadcastFileList(t)) =>
                /\ running'
                /\ \A s \in clients :
                      readyState[s] = "OPEN" =>
                          sent'[s] = Append(sent[s], FileListMsg(<<>>))
         ]_vars

\* The store holds a.txt, its listing failed once, and s1 was sent FILE_SAVED
\* for a.txt and later a FILE_LIST with the empty list.
C14_Witness ==
    /\ faults >= 1
    /\ FindOne("a.txt") # 0
    /\ \E i, j \in 1..Len(sent["s1"]) :
          /\ i < j
          /\ sent["s1"][i] = FileSavedMsg("a.txt")
          /\ sent["s1"][j] = FileListMsg(<<>>)


\* The call of task t (saveFile, loadFile, getFileVersions or loadVersion)
\* failed, and the handler that awaits it is about to resume.
Failed(t) ==
    /\ tasks[t].phase = "ready"
    /\ tasks[t].kind \in {"save", "load", "loadVersion"}
    /\ ~(tasks[t].kind = "save" /\ tasks[t].pc = "find")
    /\ Thrown(tasks[t])

\* C15: the step in which a handler resumes from a failed save, load, version
\* listing or version load ends that handler alone: no session is sent
\* anything, every connection stays as it is, every other suspended call
\* stays suspended and the server goes on handling messages.
C15_FailureEndsOnlyThatMessage ==
    [][\A t \in TaskIds :
          (Failed(t) /\ (ResumeThrow(t) \/ ProcessExit(t))) =>
              /\ sent' = sent
              /\ readyState' = readyState
              /\ tasks' = Ended(t)
              /\ running'
      ]_vars


\* The step hands session s one more message, of type ty.
Gets(s, ty) ==
    /\ Len(sent'[s]) > Len(sent[s])
    /\ sent'[s][Len(sent'[s])].type = ty

\* The suspended calls of session s of the given kinds that are ready to
\* resume.
ReadyFor(s, kinds) ==
    {t \in TaskIds : tasks[t].sess = s /\ tasks[t].kind \in kinds
                     /\ tasks[t].phase = "ready"}

\* C16: the step that answers a GET_FILES, LOAD_FILE, LOAD_VERSION or
\* AI_CODE_COMPLETION hands a message to no session but the one that sent the
\* request; and a session is handed a FILE_LOADED, FILE_VERSIONS or
\* AI_CODE_COMPLETION only as the answer to a request of its own, and a
\* FILE_LIST only so or as the refresh after a save.
C16_AnswersToSenderOnly ==
    /\ [][\A t \in TaskIds :
            (\/ ResumeSendFileList(t)
             \/ ResumeLoadFile(t)
             \/ ResumeFileVersions(t)
             \/ ResumeLoadVersion(t)
             \/ ResumeCompleted(t)) =>
                \A s \in Sessions \ {tasks[t].sess} : sent'[s] = sent[s]
         ]_vars
    /\ [][\A s \in Sessions :
            /\ Gets(s, "FILE_LOADED") => ReadyFor(s, {"load", "loadVersion"}) # {}
            /\ Gets(s, "FILE_VERSIONS") => ReadyFor(s, {"load"}) # {}
            /\ Gets(s, "AI_CODE_COMPLETION") => ReadyFor(s, {"ai"}) # {}
            /\ Gets(s, "FILE_LIST") =>
                  \/ ReadyFor(s, {"list"}) # {}
                  \/ \E t \in TaskIds : Ready(t, "save", "find")
         ]_vars

\* s1 was answered a load and a completion it asked for while s2, open, was
\* handed nothing but its handshake.
C16_Witness ==
    /\ readyState["s1"] = "OPEN" /\ readyState["s2"] = "OPEN"
    /\ Len(sent["s2"]) = 2
    /\ \E i \in 1..Len(sent["s1"]) : sent["s1"][i].type = "FILE_LOADED"
    /\ \E i \in 1..Len(sent["s1"]) : sent["s1"][i].type = "AI_CODE_COMPLETION"
    /\ tasks = <<>>


\* The _ids of the versions of the document named fn.
VersionIdsOf(fn) ==
    {v \in 1..Len(versions) : versions[v].fileId = FindOne(fn)}

\* rows names each version in ids once, with its number, newest first.
ListsNewestFirst(rows, ids) ==
    /\ Len(rows) = Cardinality(ids)
    /\ {rows[i].id : i \in 1..Len(rows)} = ids
    /\ \A i \in 1..Len(rows) : rows[i].version = versions[rows[i].id].version
    /\ \A i, j \in 1..Len(rows) : i < j => rows[i].version >= rows[j].version

\* C17: what the store answers to the version query of a LOAD_FILE names every
\* version the document has at that instant and no version of another
\* document, by descending version number; and that answer is what the
\* FILE_VERSIONS carries, sent to a session that was already sent the
\* FILE_LOADED of the same filename.
C17_VersionsListedNewestFirst ==
    /\ [][\A t \in TaskIds :
            ExecFindVersions(t) =>
                ListsNewestFirst(tasks'[t].rows, VersionIdsOf(tasks[t].filename))
         ]_vars
    /\ [][\A t \in TaskIds :
            ResumeFileVersions(t) =>
                /\ sent'[tasks[t].sess] =
                      Append(sent[tasks[t].sess], FileVersionsMsg(tasks[t].rows))
                /\ \E i \in 1..Len(sent[tasks[t].sess]) :
                      /\ sent[tasks[t].sess][i].type = "FILE_LOADED"
                      /\ sent[tasks[t].sess][i].filename = tasks[t].filename
         ]_vars

\* s1 loaded a.txt: it was sent FILE_LOADED and then FILE_VERSIONS with the
\* two versions of a.txt, number 2 before number 1, and not the version of
\* b.txt.
C17_Witness ==
    \E i, j \in 1..Len(sent["s1"]) :
        /\ i < j
        /\ sent["s1"][i] = FileLoadedMsg("a.txt", "x")
        /\ sent["s1"][j].type = "FILE_VERSIONS"
        /\ sent["s1"][j].versions =
              <<[id |-> 3, version |-> 2], [id |-> 1, version |-> 1]>>


\* C18: the answer to LOAD_VERSION is one FILE_LOADED for the sender that
\* carries the filename of the request and the content of the version of the
\* requested _id, whichever document owns that version.
C18_VersionContentUnderRequestedName ==
    [][\A t \in TaskIds :
          ResumeLoadVersion(t) =>
              /\ tasks[t].versionId \in 1..Len(versions)
              /\ sent'[tasks[t].sess] =
                    Append(sent[tasks[t].sess],
                           FileLoadedMsg(tasks[t].filename,
                                         versions[tasks[t].versionId].content))
      ]_vars

\* s1 asked for version 1, which is a.txt's, and for version 2, which is
\* b.txt's, both under the name b.txt: it was sent the content of each as
\* b.txt.
C18_Witness ==
    /\ versions[1].fileId = FindOne("a.txt")
    /\ Delivered("s1", FileLoadedMsg("b.txt", versions[1].content))
    /\ versions[2].fileId = FindOne("b.txt")
    /\ Delivered("s1", FileLoadedMsg("b.txt", versions[2].content))
    /\ versions[1].content # versions[2].content


\* The raw response of call t is a fence around the code it holds as enclosed.
Fenced(t) ==
    \E lang \in Langs \cup {Java}, close \in Closings :
        tasks[t].raw = Wrap(lang, tasks[t].enclosed, close)

\* C19: the completion returned for a raw response that is a fence around a
\* code is the code, trimmed, and holds no fence; for the fenced java
\* response around foo(); it is foo();.
C19_FencedResponseCleaned ==
    [][\A t \in TaskIds :
          (ResumeCompleted(t) /\ Fenced(t)) =>
              \E r \in returned' \ returned :
                  /\ r.raw = tasks[t].raw
                  /\ r.value = Trim(tasks[t].enclosed)
                  /\ NoFence(r.value)
                  /\ sent'[tasks[t].sess] =
                        Append(sent[tasks[t].sess], AICompletionMsg(r.value))
                  /\ r.raw = JavaFoo => r.value = Foo
      ]_vars

\* The fenced java response around foo(); was received and the completion
\* that was returned for it is foo();.
C19_Witness ==
    \E r \in returned :
        r.raw = JavaFoo /\ r.value = Foo


\* The completion request of ordinal q is being worked on.
Completing(q) == \E t \in AITasks : tasks[t].req = q
Completed(q) == \E h \in returned : h.req = q

\* C20: every completion request that was begun returns in the end; one that
\* is being worked on stays so until the step in which it returns; no request
\* returns twice; and each return is one AI_CODE_COMPLETION for the sender.
C20_CompletionAlwaysAnswered ==
    /\ \A q \in 1..MaxAI : Completing(q) ~> Completed(q)
    /\ [][\A q \in 1..MaxAI :
            Completing(q) => Completing(q)' \/ Completed(q)'
         ]_vars
    /\ [](\A h, k \in returned : h.req = k.req => h = k)
    /\ [](\A s \in Sessions :
            Cardinality({i \in 1..Len(sent[s]) :
                            sent[s][i].type = "AI_CODE_COMPLETION"})
                = Cardinality({h \in returned : h.sess = s}))


\* A completion request is suspended on its call to the endpoint.
Stalled == \E t \in TaskIds : Hung(t) /\ Waiting(t, "ai", "fetch")

\* A handler other than the suspended request's has not yet run to its end.
OthersPending == \E t \in TaskIds : ~Hung(t)

\* The message type with which the last step of a handler of kind k answers.
AnswerOf(k) ==
    CASE k = "save" -> "FILE_LIST"
      [] k = "list" -> "FILE_LIST"
      [] k = "ai" -> "AI_CODE_COMPLETION"
      [] OTHER -> "none"

\* C21: while a completion request is suspended on an endpoint that never
\* answers it, the server still takes an UPDATE_TEXT, SAVE_FILE, GET_FILES or
\* AI_CODE_COMPLETION message from every open session, the requesting one
\* included; an UPDATE_TEXT is answered in the step that takes it; every other
\* handler runs to its end, and the step that ends it hands its answer to the
\* session that sent the message.
C21_OnlyTheRequestStalls ==
    /\ [](Stalled /\ handled < MaxMsgs =>
            \A s \in {"s1", "s2"}, m \in StallMsgs :
                readyState[s] = "OPEN" => ENABLED OnMessage(s, m))
    /\ [][Stalled =>
            /\ \A s \in {"s1", "s2"}, m \in UpdateTextMsgs :
                  OnMessage(s, m) => Gets(s, "TEXT_UPDATED")
            /\ \A t \in TaskIds :
                  ~Hung(t) /\ tasks' = Ended(t) =>
                      Gets(tasks[t].sess, AnswerOf(tasks[t].kind))]_vars
    /\ (Stalled /\ OthersPending) ~> (Stalled /\ ~OthersPending)

\* The first request is still suspended after a save and a second completion
\* request of its own session were handled to their ends and answered.
C21_Witness ==
    /\ Stalled
    /\ ~OthersPending
    /\ handled = 3
    /\ \E i \in 1..Len(sent["s1"]) : sent["s1"][i].type = "AI_CODE_COMPLETION"
    /\ \E i \in 1..Len(sent["s2"]) : sent["s2"][i].type = "FILE_SAVED"
    /\ files # <<>>


\* The filenames of the documents a File collection holds.
FilenamesIn(fs) == {fs[i].filename : i \in 1..Len(fs)}

\* C22: no step removes a document: the filenames the File collection holds
\* after a step include those it held before, whatever the step (a save of
\* the same or another document, a failed store call, the exit of the
\* process); and a filename whose save has completed is held in every state.
C22_DocumentsNeverDeleted ==
    /\ [](saved \subseteq FilenamesIn(files))
    /\ [][/\ FilenamesIn(files) \subseteq FilenamesIn(files')
          /\ Len(files') >= Len(files)]_vars

\* b.txt has been created and a.txt overwritten, and both are held.
C22_Witness ==
    /\ saved = {"a.txt", "b.txt"}
    /\ overwrites["a.txt"] = 1
    /\ FilenamesIn(files) = {"a.txt", "b.txt"}
    /\ Quiet


\* C23: no step changes or removes a version record: after every step (a save
\* of the same or another document, a load, a text update, a failed call, the
\* exit of the process) each record the Version collection held is still
\* there with the same document, content and number.
C23_VersionsImmutable ==
    [][/\ Len(versions') >= Len(versions)
       /\ \A i \in 1..Len(versions) : versions'[i] = versions[i]]_vars

\* Two overwrites of a.txt that were in flight together have added their
\* versions to the one the store held.
C23_Witness ==
    /\ Len(versions) = 3
    /\ \A i \in 1..3 : versions[i].fileId = 1
    /\ racy[3]
    /\ versions[1] = [fileId |-> 1, content |-> "x", version |-> 1]
    /\ Quiet


\* The step handles an UPDATE_TEXT message.
TextUpdate == \E s \in Sessions, m \in UpdateTextMsgs : OnMessage(s, m)

\* C24: the shared text is empty when the process starts; a step changes it
\* only when it handles an UPDATE_TEXT, so the handlers of SAVE_FILE,
\* GET_FILES, LOAD_FILE, LOAD_VERSION and AI_CODE_COMPLETION, at every one of
\* their steps, leave it as it is; and the step that handles an UPDATE_TEXT
\* leaves the File and Version collections as they are.
C24_TextOnlyByUpdateText ==
    /\ textData = ""
    /\ [][/\ textData' # textData => TextUpdate
          /\ TextUpdate => files' = files /\ versions' = versions]_vars

\* The text was updated to "x" and then a.txt, whose content is "y", was
\* loaded and its FILE_LOADED sent, the text still "x".
C24_Witness ==
    /\ textData = "x"
    /\ \E i \in 1..Len(sent["s1"]) :
          /\ sent["s1"][i].type = "FILE_LOADED"
          /\ sent["s1"][i].content = "y"
    /\ files[1].content = "y"


\* C25: the number Version.create gives a version depends on the versions of
\* its own document alone: it is at most their count plus one, and exactly
\* that when no other save of the document was in flight with this one, so
\* the first version of a document is numbered 1 however many versions the
\* other documents have.
C25_NumbersScopedPerDocument ==
    /\ [](\A fid \in 1..Len(files) :
            VersionsOf(fid) # <<>> => VersionsOf(fid)[1].version = 1)
    /\ [][\A t \in TaskIds :
            ExecVersionCreate(t) =>
                LET v == versions'[Len(versions')]
                    n == Len(VersionsOf(v.fileId))
                IN  /\ v.fileId = tasks[t].fileId
                    /\ v.version \in 1..(n + 1)
                    /\ ~tasks[t].overlapped => v.version = n + 1]_vars

\* b.txt was created and overwritten once, its version numbered 1, while the
\* store holds a version of a.txt.
C25_Witness ==
    /\ Len(files) = 2
    /\ Len(VersionsOf(2)) = 1
    /\ VersionsOf(2)[1].version = 1
    /\ VersionsOf(1) # <<>>
    /\ Quiet


\* The line of text c that holds offset p (offsets count from 0, and a line
\* end belongs to the line it ends).
CursorLine(c, p) ==
    Split(c)[1 + Cardinality({i \in 1..p : c[i] = "\n"})]

\* The number of spaces line l begins with.
LeadingSpaces(l) ==
    CHOOSE n \in 0..Len(l) :
        /\ \A i \in 1..n : l[i] = " "
        /\ n = Len(l) \/ l[n + 1] # " "

\* The indentation of a completed request h: that of the cursor's line, and
\* none when the cursor is past the end of the text.
BaseIndentation(h) ==
    IF h.cursorPosition <= Len(h.context)
    THEN LeadingSpaces(CursorLine(h.context, h.cursorPosition))
    ELSE 0

\* The completions returned to requests that carried a cursor position.
CursorAware == {h \in returned : h.ok /\ h.cursorPosition # Undefined}

\* C26 as the specification states it: every line of the snippet sent is the
\* line of the cleaned response with the indentation of the cursor's line
\* before it.
C26_EveryLineIndented ==
    \A h \in CursorAware :
        h.cursorPosition <= Len(h.context) =>
            LET src == Split(Clean(h.raw))
                out == Split(h.value)
            IN  /\ Len(out) = Len(src)
                /\ \A k \in 1..Len(src) :
                      out[k] = Spaces(BaseIndentation(h)) \o src[k]

\* C26: when the request carries a cursor position, every line of the cleaned
\* response that is not blank is sent with as many spaces before it as the
\* line of the editor text that holds the cursor begins with (none when the
\* cursor is past the end of the text), and every blank line of it is sent
\* empty, without that indentation.
C26_NonBlankLinesIndented ==
    \A h \in CursorAware :
        LET src == Split(Clean(h.raw))
            out == Split(h.value)
        IN  /\ Len(out) = Len(src)
            /\ \A k \in 1..Len(src) :
                  out[k] = IF \A i \in 1..Len(src[k]) : src[k][i] = " "
                           THEN <<>>
                           ELSE Spaces(BaseIndentation(h)) \o src[k]

\* The cursor was in the second line of the text, which begins with one
\* space, and the response held an empty line between two others: the two
\* were sent with one space before them, the empty line as it was.
C26_Witness ==
    \E h \in CursorAware :
        /\ h.context = <<"\n", " ", "a">>
        /\ h.cursorPosition = 1
        /\ h.raw = <<"f", "\n", "\n", "o">>
        /\ h.value = <<" ", "f", "\n", "\n", " ", "o">>


\* C27: when the client's socket closes, the ping timer started for it no
\* longer runs and no other does; a WebSocket constructed after the first is
\* constructed by a timeout that has waited the full reconnection delay; at
\* most one ping timer runs at any time; and a closed socket is followed by a
\* new connection attempt.
C27_ReconnectsWithOneTimer ==
    /\ [](Cardinality(page.intervals) <= 1)
    /\ [][page.socket # "CLOSED" /\ page'.socket = "CLOSED" =>
              /\ page.pingInterval \notin page'.intervals
              /\ page'.intervals = {}
              /\ Len(page'.timeouts) = Len(page.timeouts) + 1]_vars
    /\ [][page.made >= 1 /\ page'.made > page.made =>
              \E i \in 1..Len(page.timeouts) :
                  /\ page.timeouts[i].waited = ReconnectMs
                  /\ Len(page'.timeouts) = Len(page.timeouts) - 1]_vars
    /\ (page.socket = "CLOSED" /\ page.made < MaxSockets)
          ~> (page.socket = "CONNECTING")

\* The second socket of the client is open with its own ping timer, the
\* first one's stopped, and a PING has gone out on it.
C27_Witness ==
    /\ page.made = 2
    /\ page.socket = "OPEN"
    /\ page.intervals = {2}
    /\ page.out = <<"GET_FILES", "GET_FILES", "PING">>


\* The documents stored under filename fn.
DocumentsNamed(fn) == {i \in 1..Len(files) : files[i].filename = fn}

\* C28: in every state, whatever the interleaving of the saves, at most one
\* document is stored under a filename, and exactly one under a filename whose
\* save has completed, whose File.create has succeeded or whose File.create
\* the store has rejected without being at fault.
C28_FilenamesUnique ==
    /\ \A fn \in Filenames :
          /\ Cardinality(DocumentsNamed(fn)) <= 1
          /\ fn \in saved => Cardinality(DocumentsNamed(fn)) = 1
    /\ \A t \in TaskIds :
          Ready(t, "save", "createFile") /\ (tasks[t].ok \/ faults = 0) =>
              Cardinality(DocumentsNamed(tasks[t].filename)) = 1

\* Two saves of b.txt both found no document; the File.create of one stored
\* it and that of the other was rejected by the index, no store fault
\* involved.
C28_Witness ==
    /\ faults = 0
    /\ \E t \in TaskIds :
          /\ Ready(t, "save", "createFile")
          /\ tasks[t].filename = "b.txt"
          /\ ~tasks[t].ok
    /\ Cardinality(DocumentsNamed("b.txt")) = 1


\* C29: whatever the interleaving of the saves, a step that replaces the
\* content of a document replaces a content that some version of that document
\* holds, so that no content that was overwritten is lost.
C29_NoOverwrittenContentLost ==
    [][\A i \in 1..Len(files) :
          files'[i].content # files[i].content =>
              \E k \in 1..Len(versions) :
                  /\ versions[k].fileId = i
                  /\ versions[k].content = files[i].content]_vars


\* C30: when a handler resumes from a saveFile that failed, the File and
\* Version collections are as they were before the call: every document has
\* as many versions as overwrites of it were carried out, none left by an
\* overwrite that did not take place.
C30_FailedSaveLeavesNoTrace ==
    [][\A t \in TaskIds :
          /\ tasks[t].kind = "save"
          /\ Failed(t)
          /\ ResumeThrow(t) \/ ProcessExit(t)
          => \A fid \in 1..Len(files) :
                Len(VersionsOf(fid)) = overwrites[files[fid].filename]]_vars


\* The contents of the TEXT_UPDATED messages handed to session s, in order.
TextsSeen(s) ==
    LET q == SelectSeq(sent[s], LAMBDA m : m.type = "TEXT_UPDATED")
    IN  [i \in 1..Len(q) |-> q[i].content]

\* Sequence a ends sequence b.
EndsWith(b, a) ==
    /\ Len(a) <= Len(b)
    /\ SubSeq(b, Len(b) - Len(a) + 1, Len(b)) = a

\* C31: in every state, every open session has been handed a TEXT_UPDATED and
\* the content of the last one is the shared text; and of two open sessions
\* the texts handed to one end the texts handed to the other, so that both
\* saw the updates since the later handshake in the same order.
C31_OpenSessionsSeeBuffer ==
    /\ \A s \in Sessions :
          readyState[s] = "OPEN" =>
              /\ TextsSeen(s) # <<>>
              /\ TextsSeen(s)[Len(TextsSeen(s))] = textData
    /\ \A s, t \in Sessions :
          readyState[s] = "OPEN" /\ readyState[t] = "OPEN" =>
              \/ EndsWith(TextsSeen(s), TextsSeen(t))
              \/ EndsWith(TextsSeen(t), TextsSeen(s))

\* s1 was connected before the first of two updates and s2 after it: s1 was
\* handed the empty text, "x" and "y", s2 "x" and "y".
C31_Witness ==
    /\ readyState["s1"] = "OPEN" /\ readyState["s2"] = "OPEN"
    /\ TextsSeen("s1") = <<"", "x", "y">>
    /\ TextsSeen("s2") = <<"x", "y">>
    /\ textData = "y"


\* The file lists handed to session s, in order, each as a set of filenames.
ListsSeen(s) ==
    LET q == SelectSeq(sent[s], LAMBDA m : m.type = "FILE_LIST")
    IN  [i \in 1..Len(q) |-> {q[i].files[k] : k \in 1..Len(q[i].files)}]

\* C32: whatever the interleaving of saves, listings and the completions of
\* the store's reads, every FILE_LIST handed to a session holds every
\* filename of every FILE_LIST handed to it before.
C32_FileListsNeverShrink ==
    \A s \in Sessions :
        \A i, j \in 1..Len(ListsSeen(s)) :
            i <= j => ListsSeen(s)[i] \subseteq ListsSeen(s)[j]


\* C33: once the component has been destroyed, no step constructs a WebSocket
\* and no step hands a PING to the socket.
C33_QuietAfterTeardown ==
    [][page.mounted = "gone" =>
          /\ page'.made = page.made
          /\ page'.out = page.out]_vars

====
